---- MODULE Spec2Model ----
(***************************************************************************)
(* Model of GenericTrajectory (the generic piecewise-polynomial trajectory *)
(* container): waypoint buffer, lazily rebuilt time index, group function  *)
(* resolver and sampler.                                                   *)
(*                                                                         *)
(* dReal values are modelled as exact rationals <<num, den>> (den > 0,     *)
(* lowest terms); <<1,0>>, <<-1,0>> and <<0,0>> stand for +inf, -inf and   *)
(* NaN, the results of the divisions by zero the code performs.  Rounding  *)
(* error of the floating-point build is outside the model.                 *)
(***************************************************************************)
EXTENDS Integers, Sequences, FiniteSets, TLC

VARIABLES traj, ret

vars == <<traj, ret>>

-----------------------------------------------------------------------------
(* Bounds of the model *)

\* cap on the number of waypoints a buffer may hold (guards of the inserts)
MaxWaypoints == 3
\* the same where the mutations are interleaved with the queries
QueryMaxWaypoints == 2
\* largest number of rows handed to one insert
MaxInsertRows == 2
\* the same where the mutations are interleaved with the queries
QueryInsertRows == 1
\* channel values of inserted rows range over 0..MaxValue
MaxValue == 1
\* deltatime values of inserted rows range up to MaxDelta
MaxDelta == 1
\* sample times range over 0, 1/2, 1, ... MaxTimeTicks/2
MaxTimeTicks == 4
\* channel values where deltatime values may be negative
NegMaxValue == 0
\* the same caps and ranges for the specification with two trajectories
PairMaxWaypoints == 2
PairInsertRows == 2
PairMaxValue == 0
PairMaxDelta == 0

\* groups of a list handed to Init
MaxGroups == 3

\* rows a call that samples at a fixed step may return
MaxPoints == 5

\* waypoints of a trajectory that is written to a stream
SerialMaxWaypoints == 1

TrajIds == {1, 2}

-----------------------------------------------------------------------------
(* dReal arithmetic *)

Abs(n) == IF n < 0 THEN -n ELSE n

Sign(n) == IF n < 0 THEN -1 ELSE IF n > 0 THEN 1 ELSE 0

RECURSIVE GCD(_, _)
GCD(a, b) == IF b = 0 THEN a ELSE GCD(b, a % b)

RECURSIVE Pow2(_)
Pow2(k) == IF k = 0 THEN 1 ELSE 2 * Pow2(k - 1)

\* a dReal is a binary floating-point number: SignificandBits bits of
\* significand (the build keeps 53 of them), no bound on the exponent
SignificandBits == 12

\* the significands are below SignificandLimit
SignificandLimit == Pow2(SignificandBits)

\* the fraction m / q, q a power of two, in lowest terms
RECURSIVE Lowest(_, _)
Lowest(m, q) == IF q > 1 /\ m % 2 = 0 THEN Lowest(m \div 2, q \div 2) ELSE <<m, q>>

\* the dReal nearest to (n / d) * (p / q), ties to the even significand, the
\* significands below l; d # 0, and p and q are powers of two of which one
\* is 1
RECURSIVE Round(_, _, _, _, _)
Round(n, d, p, q, l) ==
    IF d < 0 THEN Round(-n, -d, p, q, l)
    ELSE IF n < 0 THEN Round(-n, d, -p, q, l)
    ELSE IF n = 0 THEN <<0, 1>>
    ELSE IF n \div l >= d THEN Round(n, 2 * d, 2 * p, q, l)
    ELSE IF d > 1 /\ (2 * n) \div l < d
    THEN IF d % 2 = 0 THEN Round(n, d \div 2, p, 2 * q, l) ELSE Round(2 * n, d, p, 2 * q, l)
    ELSE Lowest(p * ((n \div d) + IF \/ 2 * (n % d) > d
                                     \/ 2 * (n % d) = d /\ (n \div d) % 2 = 1
                                  THEN 1 ELSE 0), q)

\* the dReal result of an operation whose exact value is n / d; d = 0 gives
\* an infinity or, for 0 / 0, not a number
RNorm(n, d) == IF d = 0 THEN <<Sign(n), 0>> ELSE Round(n, d, 1, 1, SignificandLimit)

R(n) == <<n, 1>>

\* the dReal nearest to n1 / d1 + n2 / d2, the powers of two common to d1
\* and d2 collected in g
RECURSIVE Sum(_, _, _, _, _)
Sum(n1, d1, n2, d2, g) ==
    IF d1 > 0 /\ d1 % 2 = 0 /\ d2 > 0 /\ d2 % 2 = 0
    THEN Sum(n1, d1 \div 2, n2, d2 \div 2, 2 * g)
    ELSE RNorm(n1 * d2 + n2 * d1, d1 * d2 * g)

RAdd(a, b) == Sum(a[1], a[2], b[1], b[2], 1)
RNeg(a) == <<-a[1], a[2]>>
RSub(a, b) == RAdd(a, RNeg(b))
RMul(a, b) == RNorm(a[1] * b[1], a[2] * b[2])
RInv(a) == RNorm(a[2], a[1])
IsNaN(a) == a = <<0, 0>>
RLt(a, b) == ~IsNaN(a) /\ ~IsNaN(b) /\ a # b /\ a[1] * b[2] < b[1] * a[2]
RLe(a, b) == ~IsNaN(a) /\ ~IsNaN(b) /\ (a = b \/ a[1] * b[2] < b[1] * a[2])
RGe(a, b) == RLe(b, a)
RGt(a, b) == RLt(b, a)
RMax(a, b) == IF RLt(a, b) THEN b ELSE a

\* the small positive tolerance of the library; every value the model draws
\* is a multiple of 1/2, so any tolerance below 1/2 decides the comparisons
\* of the code the same way (the steps and range ends of the sampling at a
\* fixed step are the exception: they come within the tolerance)
g_fEpsilon == <<1, 1024>>

-----------------------------------------------------------------------------
(* ConfigurationSpecification *)

\* a group name is its space-separated token list; the first token is the
\* category
Group(name, offset, dof, interpolation) ==
    [name |-> name, offset |-> offset, dof |-> dof, interpolation |-> interpolation]

Prefix(g) == IF Len(g.name) = 0 THEN "" ELSE g.name[1]

RECURSIVE MaxEnd(_, _)
MaxEnd(groups, k) ==
    IF k = 0 THEN 0
    ELSE LET e == groups[k].offset + groups[k].dof
             r == MaxEnd(groups, k - 1)
         IN  IF e > r THEN e ELSE r

GetDOF(groups) == MaxEnd(groups, Len(groups))

SpecEq(a, b) ==
    /\ Len(a) = Len(b)
    /\ \A i \in 1..Len(a) :
          \E j \in 1..Len(b) :
             /\ a[i].offset = b[j].offset
             /\ a[i] = b[j]
             /\ \A k \in 1..(j - 1) : a[i].offset # b[k].offset

DerivativeOrder == <<"next", "linear", "quadratic", "cubic", "quartic", "quintic", "sextic">>

InterpolationIndex(s) ==
    IF \E i \in 1..Len(DerivativeOrder) : DerivativeOrder[i] = s
    THEN CHOOSE i \in 1..Len(DerivativeOrder) : DerivativeOrder[i] = s
    ELSE 0

GetInterpolationDerivative(s) ==
    LET i == InterpolationIndex(s)
    IN  IF i = 0 THEN "" ELSE IF i = 1 THEN DerivativeOrder[1] ELSE DerivativeOrder[i - 1]

GetInterpolationIntegral(s) ==
    LET i == InterpolationIndex(s)
    IN  IF i = 0 THEN ""
        ELSE IF i = Len(DerivativeOrder) THEN DerivativeOrder[i] ELSE DerivativeOrder[i + 1]

DerivativeChains ==
    << <<"joint_values", "joint_velocities", "joint_accelerations", "joint_jerks", "joint_snaps">>,
       <<"affine_transform", "affine_velocities", "affine_accelerations", "affine_jerks", "affine_snaps">>,
       <<"ikparam_values", "ikparam_velocities", "ikparam_accelerations">> >>

\* the category reached from cat by one step along its chain (+1 derivative,
\* -1 integral), "" when there is none
ChainStep(cat, step) ==
    IF \E c \in 1..Len(DerivativeChains) : \E i \in 1..Len(DerivativeChains[c]) :
          DerivativeChains[c][i] = cat /\ (i + step) \in 1..Len(DerivativeChains[c])
    THEN LET c == CHOOSE c \in 1..Len(DerivativeChains) :
                     \E i \in 1..Len(DerivativeChains[c]) : DerivativeChains[c][i] = cat
             i == CHOOSE i \in 1..Len(DerivativeChains[c]) : DerivativeChains[c][i] = cat
         IN  DerivativeChains[c][i + step]
    ELSE ""

\* index into groups of the first group of the same category and dof as the
\* group g, 0 for none
FindCompatibleGroup(groups, g) ==
    IF \E i \in 1..Len(groups) : Prefix(groups[i]) = Prefix(g) /\ groups[i].dof = g.dof
    THEN CHOOSE i \in 1..Len(groups) :
            /\ Prefix(groups[i]) = Prefix(g) /\ groups[i].dof = g.dof
            /\ \A k \in 1..(i - 1) : ~(Prefix(groups[k]) = Prefix(g) /\ groups[k].dof = g.dof)
    ELSE 0

RelatedGroup(groups, g, step) ==
    LET cat == ChainStep(Prefix(g), step)
    IN  IF cat = "" THEN 0
        ELSE FindCompatibleGroup(groups, [g EXCEPT !.name = <<cat>> \o Tail(g.name)])

FindTimeDerivativeGroup(groups, g) == RelatedGroup(groups, g, 1)

FindTimeIntegralGroup(groups, g) == RelatedGroup(groups, g, -1)

-----------------------------------------------------------------------------
(* GenericTrajectory: construction and Init *)

\* the object as the constructor leaves it; the constructor does not set
\* _bChanged, so its value b is whatever the storage held
NewTrajectory(b) ==
    [bInit |-> FALSE, spec |-> <<>>, timeoffset |-> -1,
     vtrajdata |-> <<>>, vaccumtime |-> <<>>, vdeltainvtime |-> <<>>,
     bChanged |-> b, bSamplingVerified |-> FALSE,
     vgroupinterpolators |-> <<>>, vgroupvalidators |-> <<>>,
     vderivoffsets |-> <<>>, vddoffsets |-> <<>>, vdddoffsets |-> <<>>,
     vintegraloffsets |-> <<>>, viioffsets |-> <<>>]

maporder ==
    [c \in {"deltatime", "joint_snaps", "affine_snaps", "joint_jerks", "affine_jerks",
            "joint_accelerations", "affine_accelerations", "joint_velocities",
            "affine_velocities", "joint_values", "affine_transform", "joint_torques"} |->
       CASE c = "deltatime" -> 0
         [] c = "joint_snaps" -> 1
         [] c = "affine_snaps" -> 2
         [] c = "joint_jerks" -> 3
         [] c = "affine_jerks" -> 4
         [] c = "joint_accelerations" -> 5
         [] c = "affine_accelerations" -> 6
         [] c = "joint_velocities" -> 7
         [] c = "affine_velocities" -> 8
         [] c = "joint_values" -> 9
         [] c = "affine_transform" -> 10
         [] c = "joint_torques" -> 11]

\* the category tokens without a precedence that the model uses, in the order
\* of std::string's operator<
LexOrder == <<"", "grabbody", "ikparam_accelerations", "ikparam_values", "ikparam_velocities", "outputSignals">>

LexIndex(s) == CHOOSE i \in 1..Len(LexOrder) : LexOrder[i] = s

StringLess(a, b) == LexIndex(a) < LexIndex(b)

\* the comparison by the table alone
SortGroupsKnownOnly(g1, g2) ==
    /\ Prefix(g1) \in DOMAIN maporder
    /\ Prefix(g2) \in DOMAIN maporder
    /\ maporder[Prefix(g1)] < maporder[Prefix(g2)]

SortGroups(g1, g2) ==
    LET g1prefix == Prefix(g1)
        g2prefix == Prefix(g2)
        known1 == g1prefix \in DOMAIN maporder
        known2 == g2prefix \in DOMAIN maporder
    IN  IF ~known1 /\ ~known2 THEN StringLess(g1prefix, g2prefix)
        ELSE IF ~known1 THEN FALSE
        ELSE IF ~known2 THEN TRUE
        ELSE maporder[g1prefix] < maporder[g2prefix]

\* position after which g goes into the sorted sequence s: g moves in front
\* of the trailing elements it is less than, and of no other
RECURSIVE InsertPos(_, _, _)
InsertPos(s, g, j) ==
    IF j >= 1 /\ SortGroups(g, s[j]) THEN InsertPos(s, g, j - 1) ELSE j

RECURSIVE StableSort(_, _)
StableSort(groups, n) ==
    IF n = 0 THEN <<>>
    ELSE LET s == StableSort(groups, n - 1)
             j == InsertPos(s, groups[n], Len(s))
         IN  SubSeq(s, 1, j) \o <<groups[n]>> \o SubSeq(s, j + 1, Len(s))

\* offset of the last group named exactly deltatime, -1 when there is none
RECURSIVE TimeOffsetOf(_, _)
TimeOffsetOf(groups, n) ==
    IF n = 0 THEN -1
    ELSE IF groups[n].name = <<"deltatime">> THEN groups[n].offset
    ELSE TimeOffsetOf(groups, n - 1)

-----------------------------------------------------------------------------
(* Group function resolver *)

IsIkLinear(g) == Prefix(g) \in {"ikparam_values", "ikparam_accelerations"}
IsIkQuadratic(g) == Prefix(g) \in {"ikparam_values", "ikparam_velocities"}
IsIkCubic(g) == Prefix(g) = "ikparam_values"

\* the kernel bound for a group: the interpolator, the validator and the
\* number of neighbours it needs ("" is an empty function object)
KernelOf(g) ==
    LET s == g.interpolation
    IN  CASE s = "previous" -> [fn |-> "Previous", vfn |-> "", need |-> 0]
          [] s = "next" -> [fn |-> "Next", vfn |-> "", need |-> 0]
          [] s = "linear" ->
                IF IsIkLinear(g) THEN [fn |-> "LinearIk", vfn |-> "", need |-> 2]
                ELSE [fn |-> "Linear", vfn |-> "Linear", need |-> 2]
          [] s = "quadratic" ->
                IF IsIkQuadratic(g) THEN [fn |-> "QuadraticIk", vfn |-> "", need |-> 3]
                ELSE [fn |-> "Quadratic", vfn |-> "Quadratic", need |-> 3]
          [] s = "cubic" ->
                IF IsIkCubic(g) THEN [fn |-> "CubicIk", vfn |-> "", need |-> 3]
                ELSE [fn |-> "Cubic", vfn |-> "Cubic", need |-> 3]
          [] s = "quartic" -> [fn |-> "Quartic", vfn |-> "Quartic", need |-> 3]
          [] s = "quintic" -> [fn |-> "Quintic", vfn |-> "Quintic", need |-> 3]
          [] s = "sextic" -> [fn |-> "Sextic", vfn |-> "Sextic", need |-> 3]
          [] s = "max" -> [fn |-> "Max", vfn |-> "", need |-> 0]
          [] s = "" -> [fn |-> "Next", vfn |-> "", need |-> 0]
          [] OTHER -> [fn |-> "", vfn |-> "", need |-> 0]

\* the related group whatever its label, when it has one
ValidRelatedAnyLabel(groups, from, step) ==
    LET k == RelatedGroup(groups, groups[from], step)
    IN  IF k = 0 THEN 0 ELSE IF groups[k].interpolation = "" THEN 0 ELSE k

\* the related group reached from group index from by one step, 0 when it is
\* missing or its label is not the one expected from the label of from
ValidRelated(groups, from, step) ==
    LET k == RelatedGroup(groups, groups[from], step)
        expected == IF step = 1 THEN GetInterpolationDerivative(groups[from].interpolation)
                    ELSE GetInterpolationIntegral(groups[from].interpolation)
    IN  IF k = 0 THEN 0
        ELSE IF groups[k].interpolation = "" \/ groups[k].interpolation # expected THEN 0
        ELSE k

\* writes the channels of group g of the offset array arr: the channels of
\* the related group src, or -need when src is 0
SetOffsets(arr, groups, g, src, need) ==
    [c \in 1..Len(arr) |->
        IF (c - 1) >= g.offset /\ (c - 1) < g.offset + g.dof
        THEN IF src = 0 THEN -need ELSE groups[src].offset + ((c - 1) - g.offset)
        ELSE arr[c]]

ResolveGroup(f, groups, i) ==
    LET g == groups[i]
        k == KernelOf(g)
        bound == [f EXCEPT !.vgroupinterpolators[i] = [fn |-> k.fn, g |-> g],
                           !.vgroupvalidators[i] = [fn |-> k.vfn, g |-> g]]
        d1 == ValidRelated(groups, i, 1)
        d2 == IF d1 = 0 THEN 0 ELSE ValidRelated(groups, d1, 1)
        d3 == IF d2 = 0 THEN 0 ELSE ValidRelated(groups, d2, 1)
        i1 == ValidRelated(groups, i, -1)
        i2 == IF i1 = 0 THEN 0 ELSE ValidRelated(groups, i1, -1)
    IN  IF k.need = 0 THEN bound
        ELSE [bound EXCEPT
                !.vderivoffsets = SetOffsets(@, groups, g, d1, k.need),
                !.vddoffsets = IF d1 = 0 THEN @ ELSE SetOffsets(@, groups, g, d2, k.need),
                !.vdddoffsets = IF d2 = 0 THEN @ ELSE SetOffsets(@, groups, g, d3, k.need),
                !.vintegraloffsets = SetOffsets(@, groups, g, i1, k.need),
                !.viioffsets = IF i1 = 0 THEN @ ELSE SetOffsets(@, groups, g, i2, k.need)]

RECURSIVE ResolveGroups(_, _, _)
ResolveGroups(f, groups, n) ==
    IF n = 0 THEN f ELSE ResolveGroup(ResolveGroups(f, groups, n - 1), groups, n)

InitializeGroupFunctions(tr) ==
    LET groups == tr.spec
        dof == GetDOF(groups)
        empty == [c \in 1..dof |-> -1]
        none == [i \in 1..Len(groups) |-> [fn |-> "", g |-> groups[i]]]
    IN  ResolveGroups([tr EXCEPT !.vgroupinterpolators = none, !.vgroupvalidators = none,
                                 !.vderivoffsets = empty, !.vddoffsets = empty,
                                 !.vdddoffsets = empty, !.vintegraloffsets = empty,
                                 !.viioffsets = empty],
                      groups, Len(groups))

\* Init that leaves the waypoint buffer as it is
InitKeepingWaypoints(tr, spec) ==
    LET sorted == StableSort(spec, Len(spec))
        fresh == IF tr.bInit /\ SpecEq(tr.spec, spec) THEN tr
                 ELSE InitializeGroupFunctions(
                         [tr EXCEPT !.spec = sorted,
                                    !.timeoffset = TimeOffsetOf(sorted, Len(sorted))])
    IN  [fresh EXCEPT !.vaccumtime = <<>>, !.vdeltainvtime = <<>>,
                      !.bChanged = TRUE, !.bSamplingVerified = FALSE, !.bInit = TRUE]

InitTraj(tr, spec) ==
    LET sorted == StableSort(spec, Len(spec))
        fresh == IF tr.bInit /\ SpecEq(tr.spec, spec) THEN tr
                 ELSE InitializeGroupFunctions(
                         [tr EXCEPT !.spec = sorted,
                                    !.timeoffset = TimeOffsetOf(sorted, Len(sorted))])
    IN  [fresh EXCEPT !.vtrajdata = <<>>, !.vaccumtime = <<>>, !.vdeltainvtime = <<>>,
                      !.bChanged = TRUE, !.bSamplingVerified = FALSE, !.bInit = TRUE]

-----------------------------------------------------------------------------
(* Waypoint buffer *)

Min(a, b) == IF a < b THEN a ELSE b

\* element k (counted from 0) of a vector
At(v, k) == v[k + 1]

\* the n elements of v from element first (counted from 0)
Slice(v, first, n) == SubSeq(v, first + 1, first + n)

Result(t, err) == [t |-> t, err |-> err]

\* _vtrajdata.size()/_spec.GetDOF(); the division traps or yields 0 when the
\* specification has no channel, here 0 stands for both
GetNumWaypoints(tr) ==
    LET dof == GetDOF(tr.spec)
    IN  IF dof = 0 THEN 0 ELSE Len(tr.vtrajdata) \div dof

\* an overwrite that drops the values of data past the end of the buffer
OverwriteTruncating(v, pos, data) ==
    LET copysize == Min(Len(data), Len(v) - pos)
    IN  [k \in 1..Len(v) |-> IF k > pos /\ k <= pos + copysize THEN data[k - pos] ELSE v[k]]

\* the overwrite branch of Insert: the leading values of data replace what
\* is stored from element pos on, the rest goes to the end of the buffer
OverwriteData(v, pos, data) ==
    LET copysize == Min(Len(data), Len(v) - pos)
        copied == [k \in 1..Len(v) |->
                      IF k > pos /\ k <= pos + copysize THEN data[k - pos] ELSE v[k]]
    IN  IF copysize < Len(data) THEN copied \o SubSeq(data, copysize + 1, Len(data))
        ELSE copied

\* vector::insert of data in front of element pos
InsertData(v, pos, data) == SubSeq(v, 1, pos) \o data \o SubSeq(v, pos + 1, Len(v))

\* an Insert that marks the buffer changed before it looks at its arguments
InsertMarkingFirst(tr, index, data, bOverwrite) ==
    LET dof == GetDOF(tr.spec)
        pos == index * dof
        marked == [tr EXCEPT !.bChanged = TRUE]
    IN  IF ~tr.bInit THEN Result(tr, "Assert")
        ELSE IF Len(data) = 0 THEN Result(tr, "none")
        ELSE IF ~(dof > 0) THEN Result(tr, "Assert")
        ELSE IF Len(data) % dof # 0 THEN Result(marked, "InvalidArguments")
        ELSE IF ~(pos <= Len(tr.vtrajdata)) THEN Result(tr, "Assert")
        ELSE IF bOverwrite /\ pos < Len(tr.vtrajdata)
             THEN Result([tr EXCEPT !.vtrajdata = OverwriteData(@, pos, data),
                                    !.bChanged = TRUE], "none")
        ELSE Result([tr EXCEPT !.vtrajdata = InsertData(@, pos, data),
                               !.bChanged = TRUE], "none")

InsertTraj(tr, index, data, bOverwrite) ==
    LET dof == GetDOF(tr.spec)
        pos == index * dof
    IN  IF ~tr.bInit THEN Result(tr, "Assert")
        ELSE IF Len(data) = 0 THEN Result(tr, "none")
        ELSE IF ~(dof > 0) THEN Result(tr, "Assert")
        ELSE IF Len(data) % dof # 0 THEN Result(tr, "InvalidArguments")
        ELSE IF ~(pos <= Len(tr.vtrajdata)) THEN Result(tr, "Assert")
        ELSE IF bOverwrite /\ pos < Len(tr.vtrajdata)
             THEN Result([tr EXCEPT !.vtrajdata = OverwriteData(@, pos, data),
                                    !.bChanged = TRUE], "none")
        ELSE Result([tr EXCEPT !.vtrajdata = InsertData(@, pos, data),
                               !.bChanged = TRUE], "none")

\* an erase that stops one element early
EraseShort(v, first, last) == SubSeq(v, 1, first) \o SubSeq(v, last, Len(v))

\* vector::erase of the elements [first, last)
Erase(v, first, last) == SubSeq(v, 1, first) \o SubSeq(v, last + 1, Len(v))

\* a Remove that leaves _bChanged as it is
RemoveKeepingIndex(tr, startindex, endindex) ==
    LET dof == GetDOF(tr.spec)
    IN  IF ~tr.bInit THEN Result(tr, "Assert")
        ELSE IF startindex = endindex THEN Result(tr, "none")
        ELSE IF ~(startindex * dof <= Len(tr.vtrajdata) /\ endindex * dof <= Len(tr.vtrajdata))
             THEN Result(tr, "Assert")
        ELSE IF ~(startindex < endindex) THEN Result(tr, "Assert")
        ELSE Result([tr EXCEPT !.vtrajdata = Erase(@, startindex * dof, endindex * dof)],
                    "none")

RemoveTraj(tr, startindex, endindex) ==
    LET dof == GetDOF(tr.spec)
    IN  IF ~tr.bInit THEN Result(tr, "Assert")
        ELSE IF startindex = endindex THEN Result(tr, "none")
        ELSE IF ~(startindex * dof <= Len(tr.vtrajdata) /\ endindex * dof <= Len(tr.vtrajdata))
             THEN Result(tr, "Assert")
        ELSE IF ~(startindex < endindex) THEN Result(tr, "Assert")
        ELSE Result([tr EXCEPT !.vtrajdata = Erase(@, startindex * dof, endindex * dof),
                               !.bChanged = TRUE], "none")

ClearWaypointsTraj(tr) ==
    IF tr.bInit /\ Len(tr.vtrajdata) > 0
    THEN [tr EXCEPT !.bSamplingVerified = FALSE, !.bChanged = TRUE, !.vtrajdata = <<>>]
    ELSE tr

-----------------------------------------------------------------------------
(* Time index *)

\* vector::resize: keeps the leading elements, value-initialises new ones
Resize(v, n) == [k \in 1..n |-> IF k <= Len(v) THEN v[k] ELSE R(0)]

\* a rebuild without the test of the sign
NeverNegative(deltatime) == FALSE

IsNegativeDelta(deltatime) == RLt(deltatime, R(0))

\* a loop that clears the dirty flag when it stops at a negative deltatime
RECURSIVE ComputeLoopClearing(_, _)
ComputeLoopClearing(tr, i) ==
    IF ~(i < Len(tr.vaccumtime)) THEN Result(tr, "none")
    ELSE LET deltatime == At(tr.vtrajdata, GetDOF(tr.spec) * i + tr.timeoffset)
         IN  IF IsNegativeDelta(deltatime)
             THEN Result([tr EXCEPT !.bChanged = FALSE], "InvalidState")
             ELSE ComputeLoopClearing(
                     [tr EXCEPT !.vdeltainvtime[i + 1] = RInv(deltatime),
                                !.vaccumtime[i + 1] = RAdd(At(tr.vaccumtime, i - 1), deltatime)],
                     i + 1)

\* the loop of _ComputeInternal from waypoint i on; it stops at the first
\* negative deltatime and leaves the arrays as filled so far
RECURSIVE ComputeLoop(_, _)
ComputeLoop(tr, i) ==
    IF ~(i < Len(tr.vaccumtime)) THEN Result(tr, "none")
    ELSE LET deltatime == At(tr.vtrajdata, GetDOF(tr.spec) * i + tr.timeoffset)
         IN  IF IsNegativeDelta(deltatime) THEN Result(tr, "InvalidState")
             ELSE ComputeLoop(
                     [tr EXCEPT !.vdeltainvtime[i + 1] = RInv(deltatime),
                                !.vaccumtime[i + 1] = RAdd(At(tr.vaccumtime, i - 1), deltatime)],
                     i + 1)

ComputeInternal(tr) ==
    IF ~tr.bChanged THEN Result(tr, "none")
    ELSE IF tr.timeoffset < 0
         THEN Result([tr EXCEPT !.vaccumtime = <<>>, !.vdeltainvtime = <<>>,
                                !.bChanged = FALSE, !.bSamplingVerified = FALSE], "none")
    ELSE LET n == GetNumWaypoints(tr)
             sized == [tr EXCEPT !.vaccumtime = Resize(@, n), !.vdeltainvtime = Resize(@, n)]
         IN  IF n = 0 THEN Result(sized, "none")
             ELSE LET first == [sized EXCEPT
                                  !.vaccumtime[1] = At(tr.vtrajdata, tr.timeoffset),
                                  !.vdeltainvtime[1] = RInv(At(tr.vtrajdata, tr.timeoffset))]
                      looped == ComputeLoop(first, 1)
                  IN  IF looped.err # "none" THEN looped
                      ELSE Result([looped.t EXCEPT !.bChanged = FALSE,
                                                   !.bSamplingVerified = FALSE], "none")

\* std::lower_bound over the elements [first, first + len) of v: index of the
\* first element that is not less than value
RECURSIVE LowerBound(_, _, _, _)
LowerBound(v, first, len, value) ==
    IF len <= 0 THEN first
    ELSE LET half == len \div 2
             mid == first + half
         IN  IF RLt(At(v, mid), value) THEN LowerBound(v, mid + 1, len - half - 1, value)
             ELSE LowerBound(v, first, half, value)

\* the value part of a query: v is meaningful when err is "none"
Answer(t, err, v) == [t |-> t, err |-> err, val |-> v]

GetDurationTraj(tr) ==
    IF ~tr.bInit THEN Answer(tr, "Assert", <<>>)
    ELSE LET c == ComputeInternal(tr)
         IN  IF c.err # "none" THEN Answer(c.t, c.err, <<>>)
             ELSE Answer(c.t, "none",
                         IF Len(c.t.vaccumtime) > 0 THEN c.t.vaccumtime[Len(c.t.vaccumtime)]
                         ELSE R(0))

\* the lookup with time > accum.back() for time >= accum.back()
FirstIndexStrict(tr, time) ==
    IF ~tr.bInit \/ ~(tr.timeoffset >= 0) THEN Answer(tr, "Assert", <<>>)
    ELSE LET c == ComputeInternal(tr)
             accum == c.t.vaccumtime
         IN  IF c.err # "none" THEN Answer(c.t, c.err, <<>>)
             ELSE IF Len(accum) = 0 THEN Answer(c.t, "none", 0)
             ELSE IF RLt(time, At(accum, 0)) THEN Answer(c.t, "none", 0)
             ELSE IF RGt(time, At(accum, Len(accum) - 1))
                  THEN Answer(c.t, "none", GetNumWaypoints(c.t))
             ELSE Answer(c.t, "none", LowerBound(accum, 0, Len(accum), time))

GetFirstWaypointIndexAfterTimeTraj(tr, time) ==
    IF ~tr.bInit \/ ~(tr.timeoffset >= 0) THEN Answer(tr, "Assert", <<>>)
    ELSE LET c == ComputeInternal(tr)
             accum == c.t.vaccumtime
         IN  IF c.err # "none" THEN Answer(c.t, c.err, <<>>)
             ELSE IF Len(accum) = 0 THEN Answer(c.t, "none", 0)
             ELSE IF RLt(time, At(accum, 0)) THEN Answer(c.t, "none", 0)
             ELSE IF RGe(time, At(accum, Len(accum) - 1))
                  THEN Answer(c.t, "none", GetNumWaypoints(c.t))
             ELSE Answer(c.t, "none", LowerBound(accum, 0, Len(accum), time))

-----------------------------------------------------------------------------
(* Interpolators and validators *)

g_fEpsilonLinear == <<1, 512>>

\* std::copy of values to the channels of data from channel offset on
CopyTo(data, offset, values) ==
    [c \in 1..Len(data) |->
        IF (c - 1) >= offset /\ (c - 1) < offset + Len(values) THEN values[c - offset]
        ELSE data[c]]

\* the previous kernel that keeps the start of the segment up to its end
InterpolatePreviousAlways(tr, g, ipoint, deltatime, data) ==
    CopyTo(data, g.offset, Slice(tr.vtrajdata, ipoint * GetDOF(tr.spec) + g.offset, g.dof))

InterpolatePrevious(tr, g, ipoint, deltatime, data) ==
    LET dof == GetDOF(tr.spec)
        offset == ipoint * dof + g.offset
        f == RMul(At(tr.vdeltainvtime, ipoint + 1), deltatime)
        chosen == IF (ipoint + 1) * dof < Len(tr.vtrajdata) /\ RGt(f, RSub(R(1), g_fEpsilon))
                  THEN offset + dof ELSE offset
    IN  CopyTo(data, g.offset, Slice(tr.vtrajdata, chosen, g.dof))

\* the next kernel that takes the end of the segment whatever the elapsed time
InterpolateNextAlways(tr, g, ipoint0, deltatime, data) ==
    LET dof == GetDOF(tr.spec)
        ipoint == IF (ipoint0 + 1) * dof < Len(tr.vtrajdata) THEN ipoint0 + 1 ELSE ipoint0
    IN  CopyTo(data, g.offset, Slice(tr.vtrajdata, ipoint * dof + g.offset, g.dof))

\* the next kernel that tests the segment's index before stepping to its end
InterpolateNextTestingFirst(tr, g, ipoint0, deltatime, data) ==
    LET dof == GetDOF(tr.spec)
        ipoint == IF (ipoint0 + 1) * dof < Len(tr.vtrajdata) THEN ipoint0 + 1 ELSE ipoint0
        offset == ipoint * dof + g.offset
        chosen == IF RLe(deltatime, g_fEpsilon) /\ ipoint0 > 0 THEN offset - dof ELSE offset
    IN  CopyTo(data, g.offset, Slice(tr.vtrajdata, chosen, g.dof))

InterpolateNext(tr, g, ipoint0, deltatime, data) ==
    LET dof == GetDOF(tr.spec)
        ipoint == IF (ipoint0 + 1) * dof < Len(tr.vtrajdata) THEN ipoint0 + 1 ELSE ipoint0
        offset == ipoint * dof + g.offset
        chosen == IF RLe(deltatime, g_fEpsilon) /\ ipoint > 0 THEN offset - dof ELSE offset
    IN  CopyTo(data, g.offset, Slice(tr.vtrajdata, chosen, g.dof))

\* the linear kernel that integrates the channel of the same offset of the next
\* waypoint when no derivative is resolved
InterpolateLinearIntegrating(tr, g, ipoint, deltatime, data) ==
    LET dof == GetDOF(tr.spec)
        offset == ipoint * dof
    IN  CopyTo(data, g.offset,
               [i \in 1..g.dof |->
                   RAdd(At(tr.vtrajdata, offset + g.offset + i - 1),
                        RMul(deltatime, At(tr.vtrajdata, dof + offset + g.offset + i - 1)))])

InterpolateLinear(tr, g, ipoint, deltatime, data) ==
    LET dof == GetDOF(tr.spec)
        offset == ipoint * dof
        derivoffset == At(tr.vderivoffsets, g.offset)
        f == RMul(At(tr.vdeltainvtime, ipoint + 1), deltatime)
    IN  IF derivoffset < 0
        THEN CopyTo(data, g.offset,
                    [i \in 1..g.dof |->
                        RAdd(RMul(At(tr.vtrajdata, offset + g.offset + i - 1), RSub(R(1), f)),
                             RMul(f, At(tr.vtrajdata, dof + offset + g.offset + i - 1)))])
        ELSE CopyTo(data, g.offset,
                    [i \in 1..g.dof |->
                        RAdd(At(tr.vtrajdata, offset + g.offset + i - 1),
                             RMul(deltatime, At(tr.vtrajdata, dof + offset + derivoffset + i - 1)))])

InterpolateMax(tr, g, ipoint, deltatime, data) ==
    LET dof == GetDOF(tr.spec)
        offset == ipoint * dof + g.offset
    IN  CopyTo(data, g.offset,
               [i \in 1..g.dof |->
                   RMax(At(tr.vtrajdata, offset + i - 1), At(tr.vtrajdata, dof + offset + i - 1))])

\* the cubic kernel that copies the start of the segment whatever is resolved
CubicNeverThrows(tr, g, deltatime) == FALSE

\* _InterpolateCubic has no data to work with: past the start of a segment,
\* neither the derivative nor both integrals of the group are resolved
CubicThrows(tr, g, deltatime) ==
    /\ RGt(deltatime, g_fEpsilon)
    /\ ~(At(tr.vderivoffsets, g.offset) >= 0)
    /\ ~(At(tr.vintegraloffsets, g.offset) >= 0 /\ At(tr.viioffsets, g.offset) >= 0)

InterpolateCubic(tr, g, ipoint, deltatime, data) ==
    LET dof == GetDOF(tr.spec)
        offset == ipoint * dof
        derivoffset == At(tr.vderivoffsets, g.offset)
        integoffset == At(tr.vintegraloffsets, g.offset)
        iioffset == At(tr.viioffsets, g.offset)
        ideltatime == At(tr.vdeltainvtime, ipoint + 1)
        ideltatime2 == RMul(ideltatime, ideltatime)
        ideltatime3 == RMul(ideltatime2, ideltatime)
        ideltatime4 == RMul(ideltatime3, ideltatime)
        ideltatime5 == RMul(ideltatime4, ideltatime)
        x0(i) == At(tr.vtrajdata, offset + g.offset + i - 1)
        x1(i) == At(tr.vtrajdata, dof + offset + g.offset + i - 1)
        Poly(i, c1, c2, c3) ==
            RAdd(x0(i), RMul(deltatime, RAdd(c1, RMul(deltatime, RAdd(c2, RMul(deltatime, c3))))))
        WithDerivative(i) ==
            LET deriv0 == At(tr.vtrajdata, offset + derivoffset + i - 1)
                deriv1 == At(tr.vtrajdata, dof + offset + derivoffset + i - 1)
                px == RSub(x1(i), x0(i))
                c3 == RSub(RMul(RAdd(deriv1, deriv0), ideltatime2),
                           RMul(RMul(R(2), px), ideltatime3))
                c2 == RSub(RMul(RMul(R(3), px), ideltatime2),
                           RMul(RAdd(RMul(R(2), deriv0), deriv1), ideltatime))
            IN  Poly(i, deriv0, c2, c3)
        WithIntegrals(i) ==
            LET integ0 == At(tr.vtrajdata, offset + integoffset + i - 1)
                idiff == RSub(At(tr.vtrajdata, dof + offset + integoffset + i - 1), integ0)
                temp == RSub(RSub(At(tr.vtrajdata, dof + offset + iioffset + i - 1),
                                  At(tr.vtrajdata, offset + iioffset + i - 1)),
                             RMul(integ0, deltatime))
                c3 == RAdd(RSub(RMul(RMul(R(10), RSub(x1(i), x0(i))), ideltatime3),
                                RMul(RMul(R(60), idiff), ideltatime4)),
                           RMul(RMul(R(120), temp), ideltatime5))
                c2 == RSub(RAdd(RMul(RSub(RMul(R(18), x0(i)), RMul(R(12), x1(i))), ideltatime2),
                                RMul(RMul(R(84), idiff), ideltatime3)),
                           RMul(RMul(R(180), temp), ideltatime4))
                c1 == RAdd(RSub(RMul(RAdd(RMul(R(-9), x0(i)), RMul(R(3), x1(i))), ideltatime),
                                RMul(RMul(R(24), idiff), ideltatime2)),
                           RMul(RMul(R(60), temp), ideltatime3))
            IN  Poly(i, c1, c2, c3)
    IN  IF ~RGt(deltatime, g_fEpsilon)
        THEN CopyTo(data, g.offset, [i \in 1..g.dof |-> x0(i)])
        ELSE IF derivoffset >= 0
        THEN CopyTo(data, g.offset, [i \in 1..g.dof |-> WithDerivative(i)])
        ELSE IF integoffset >= 0 /\ iioffset >= 0
        THEN CopyTo(data, g.offset, [i \in 1..g.dof |-> WithIntegrals(i)])
        ELSE data

\* the call of the function object b bound for a group; the kernels of the
\* labels no specification of the model carries are not modelled and leave
\* the output as it is, as an empty function object does
CallInterpolator(tr, b, ipoint, deltatime, data) ==
    CASE b.fn = "Previous" -> InterpolatePrevious(tr, b.g, ipoint, deltatime, data)
      [] b.fn = "Next" -> InterpolateNext(tr, b.g, ipoint, deltatime, data)
      [] b.fn = "Linear" -> InterpolateLinear(tr, b.g, ipoint, deltatime, data)
      [] b.fn = "Max" -> InterpolateMax(tr, b.g, ipoint, deltatime, data)
      [] b.fn = "Cubic" -> InterpolateCubic(tr, b.g, ipoint, deltatime, data)
      [] OTHER -> data

RECURSIVE RunInterpolators(_, _, _, _, _)
RunInterpolators(tr, n, ipoint, deltatime, data) ==
    IF n = 0 THEN data
    ELSE CallInterpolator(tr, tr.vgroupinterpolators[n], ipoint, deltatime,
                          RunInterpolators(tr, n - 1, ipoint, deltatime, data))

\* TRUE when the segment from waypoint ipoint agrees with the derivative group
ValidateLinear(tr, g, ipoint, deltatime) ==
    LET dof == GetDOF(tr.spec)
        offset == ipoint * dof
        derivoffset == At(tr.vderivoffsets, g.offset)
    IN  derivoffset >= 0 =>
           \A i \in 1..g.dof :
              LET deriv0 == At(tr.vtrajdata, dof + offset + derivoffset + i - 1)
                  expected == RAdd(At(tr.vtrajdata, offset + g.offset + i - 1),
                                   RMul(deltatime, deriv0))
                  diff == RSub(At(tr.vtrajdata, dof + offset + g.offset + i - 1), expected)
                  error == IF RLt(diff, R(0)) THEN RNeg(diff) ELSE diff
              IN  RLe(error, g_fEpsilonLinear)

CallValidator(tr, b, ipoint, deltatime) ==
    CASE b.fn = "Linear" -> ValidateLinear(tr, b.g, ipoint, deltatime)
      [] OTHER -> TRUE

VerifySampling(tr) ==
    IF tr.bChanged \/ ~tr.bInit THEN Result(tr, "Assert")
    ELSE IF tr.bSamplingVerified THEN Result(tr, "none")
    ELSE IF \E i \in 1..Len(tr.spec) : \E j \in 0..(tr.spec[i].dof - 1) :
               /\ At(tr.vderivoffsets, tr.spec[i].offset + j) < -2
               /\ At(tr.vintegraloffsets, tr.spec[i].offset + j) < -2
         THEN Result(tr, "InvalidArguments")
    ELSE IF \E ipoint \in 0..(Len(tr.vaccumtime) - 2) : \E i \in 1..Len(tr.vgroupvalidators) :
               ~CallValidator(tr, tr.vgroupvalidators[i], ipoint,
                              RSub(At(tr.vaccumtime, ipoint + 1), At(tr.vaccumtime, ipoint)))
         THEN Result(tr, "InvalidState")
    ELSE Result([tr EXCEPT !.bSamplingVerified = TRUE], "none")

-----------------------------------------------------------------------------
(* Sampler *)

SetAt(data, k, value) == [data EXCEPT ![k + 1] = value]

\* the last waypoint with time in its deltatime channel
SampleEndTimed(tr, time) ==
    SetAt(Slice(tr.vtrajdata, Len(tr.vtrajdata) - GetDOF(tr.spec), GetDOF(tr.spec)),
          tr.timeoffset, time)

\* time >= GetDuration(): the last waypoint
SampleEnd(tr, time) ==
    Slice(tr.vtrajdata, Len(tr.vtrajdata) - GetDOF(tr.spec), GetDOF(tr.spec))

\* the first waypoint as stored
SampleBeginVerbatim(tr, time) == Slice(tr.vtrajdata, 0, GetDOF(tr.spec))

\* time in front of the first waypoint
SampleBegin(tr, time) == SetAt(Slice(tr.vtrajdata, 0, GetDOF(tr.spec)), tr.timeoffset, time)

ClampDelta(deltatime, waypointdeltatime) ==
    IF RLt(deltatime, R(0)) THEN R(0)
    ELSE IF RGt(deltatime, waypointdeltatime) THEN waypointdeltatime
    ELSE deltatime

\* the interpolated row with time itself in its deltatime channel
SampleSegmentAbsolute(tr, index, time) ==
    LET dof == GetDOF(tr.spec)
        deltatime == ClampDelta(RSub(time, At(tr.vaccumtime, index - 1)),
                                At(tr.vtrajdata, dof * index + tr.timeoffset))
        zero == [c \in 1..dof |-> R(0)]
    IN  SetAt(RunInterpolators(tr, Len(tr.vgroupinterpolators), index - 1, deltatime, zero),
              tr.timeoffset, time)

\* time inside the segment that ends at waypoint index >= 1
SampleSegment(tr, index, time) ==
    LET dof == GetDOF(tr.spec)
        deltatime == ClampDelta(RSub(time, At(tr.vaccumtime, index - 1)),
                                At(tr.vtrajdata, dof * index + tr.timeoffset))
        zero == [c \in 1..dof |-> R(0)]
    IN  SetAt(RunInterpolators(tr, Len(tr.vgroupinterpolators), index - 1, deltatime, zero),
              tr.timeoffset, deltatime)

\* the row of the segment that ends at waypoint index >= 1 written over the
\* row data of a vector that was not cleared: the channels no interpolator
\* writes keep what data holds
SampleSegmentInto(tr, index, time, data) ==
    LET dof == GetDOF(tr.spec)
        timeFromLowerWaypoint == ClampDelta(RSub(time, At(tr.vaccumtime, index - 1)),
                                            At(tr.vtrajdata, dof * index + tr.timeoffset))
    IN  SetAt(RunInterpolators(tr, Len(tr.vgroupinterpolators), index - 1,
                               timeFromLowerWaypoint, data),
              tr.timeoffset, timeFromLowerWaypoint)

\* an interpolator called for the segment that ends at waypoint index throws
SegmentThrows(tr, index, time) ==
    LET deltatime == ClampDelta(RSub(time, At(tr.vaccumtime, index - 1)),
                                At(tr.vtrajdata, GetDOF(tr.spec) * index + tr.timeoffset))
    IN  \E i \in 1..Len(tr.vgroupinterpolators) :
           /\ tr.vgroupinterpolators[i].fn = "Cubic"
           /\ CubicThrows(tr, tr.vgroupinterpolators[i].g, deltatime)

\* Sample(data, time); bVerify is the debug level asking for verification
SampleTraj(tr, time, bVerify) ==
    IF ~tr.bInit \/ ~(tr.timeoffset >= 0) \/ ~RGe(time, R(0)) THEN Answer(tr, "Assert", <<>>)
    ELSE LET c == ComputeInternal(tr)
             v == IF bVerify /\ c.err = "none" THEN VerifySampling(c.t) ELSE c
             duration == GetDurationTraj(v.t).val
             index == LowerBound(v.t.vaccumtime, 0, Len(v.t.vaccumtime), time)
         IN  IF c.err # "none" THEN Answer(c.t, c.err, <<>>)
             ELSE IF ~(Len(c.t.vtrajdata) >= GetDOF(c.t.spec))
                  THEN Answer(c.t, "InvalidArguments", <<>>)
             ELSE IF v.err # "none" THEN Answer(v.t, v.err, <<>>)
             ELSE IF RGe(time, duration) THEN Answer(v.t, "none", SampleEnd(v.t, time))
             ELSE IF index = 0 THEN Answer(v.t, "none", SampleBegin(v.t, time))
             ELSE IF SegmentThrows(v.t, index, time) THEN Answer(v.t, "InvalidArguments", <<>>)
             ELSE Answer(v.t, "none", SampleSegment(v.t, index, time))

-----------------------------------------------------------------------------
(* Insert with a source specification, Clone, Swap *)

\* ConfigurationSpecification::ConvertGroupData between two compatible groups:
\* numelements rows are copied channel by channel
ConvertGroupData(target, tpos, tdof, g, source, spos, sdof, sg, numelements) ==
    [k \in 1..Len(target) |->
        LET e == ((k - 1) - tpos) \div tdof
            j == (((k - 1) - tpos) % tdof) - g.offset
        IN  IF (k - 1) >= tpos /\ e < numelements /\ j >= 0 /\ j < g.dof /\ j < sg.dof
            THEN At(source, spos + e * sdof + sg.offset + j)
            ELSE target[k]]

\* the affine tag of a group name "affine_transform <robot> <affinedofs>":
\* the third token, "" when the name has no two tokens after the category
\* (the stream extraction fails and the zero defaults stay)
AffineTag(g) == IF Len(g.name) >= 3 THEN g.name[3] ELSE ""

\* RaveGetAffineDOFValuesFromTransform of the identity transform for the tags
\* of the model: 7 is X|Y|Z, 32 is RotationQuat, 39 is both
IdentityPose(tag) ==
    CASE tag = "7" -> <<R(0), R(0), R(0)>>
      [] tag = "32" -> <<R(1), R(0), R(0), R(0)>>
      [] tag = "39" -> <<R(0), R(0), R(0), R(1), R(0), R(0), R(0)>>
      [] OTHER -> <<>>

\* vdefaultvalues of a group without a source: the identity pose for an
\* affine_transform group with a tag, -1 for outputSignals, 0 otherwise.  The
\* groups of the model have the DOF of their tag, as the assertion demands.
DefaultValues(g) ==
    IF Prefix(g) = "affine_transform" /\ IdentityPose(AffineTag(g)) # <<>>
    THEN IdentityPose(AffineTag(g))
    ELSE IF Prefix(g) = "outputSignals" THEN [j \in 1..g.dof |-> R(-1)]
    ELSE [j \in 1..g.dof |-> R(0)]

\* the fill that writes 0 whatever the category
FillZero(target, tpos, tdof, g, numelements) ==
    [k \in 1..Len(target) |->
        LET e == ((k - 1) - tpos) \div tdof
            j == (((k - 1) - tpos) % tdof) - g.offset
        IN  IF (k - 1) >= tpos /\ e < numelements /\ j >= 0 /\ j < g.dof
            THEN R(0)
            ELSE target[k]]

FillDefault(target, tpos, tdof, g, numelements) ==
    [k \in 1..Len(target) |->
        LET e == ((k - 1) - tpos) \div tdof
            j == (((k - 1) - tpos) % tdof) - g.offset
        IN  IF (k - 1) >= tpos /\ e < numelements /\ j >= 0 /\ j < g.dof
            THEN DefaultValues(g)[j + 1]
            ELSE target[k]]

\* _ConvertData over the groups 1..n of the trajectory
RECURSIVE ConvertData(_, _, _, _, _, _, _, _, _)
ConvertData(tr, n, target, tpos, source, spos, spec, numelements, filluninitialized) ==
    IF n = 0 THEN target
    ELSE LET done == ConvertData(tr, n - 1, target, tpos, source, spos, spec, numelements,
                                 filluninitialized)
             g == tr.spec[n]
             k == FindCompatibleGroup(spec, g)
         IN  IF k # 0
             THEN ConvertGroupData(done, tpos, GetDOF(tr.spec), g, source, spos, GetDOF(spec),
                                   spec[k], numelements)
             ELSE IF filluninitialized
                  THEN FillDefault(done, tpos, GetDOF(tr.spec), g, numelements)
             ELSE done

InsertSpecTraj(tr, index0, data, spec, bOverwrite) ==
    LET dof == GetDOF(tr.spec)
        sdof == GetDOF(spec)
        size == Len(tr.vtrajdata)
    IN  IF ~tr.bInit THEN Result(tr, "Assert")
        ELSE IF Len(data) = 0 THEN Result(tr, "none")
        ELSE IF ~(sdof > 0) THEN Result(tr, "Assert")
        ELSE IF Len(data) % sdof # 0 THEN Result(tr, "InvalidArguments")
        ELSE IF ~(index0 * dof <= size) THEN Result(tr, "Assert")
        ELSE IF SpecEq(tr.spec, spec) THEN InsertTraj(tr, index0, data, bOverwrite)
        ELSE LET numpoints == Len(data) \div sdof
                 over == bOverwrite /\ index0 * dof < size
                 copyelements == IF over THEN Min(numpoints, size \div dof - index0) ELSE 0
                 written == IF over
                            THEN ConvertData(tr, Len(tr.spec), tr.vtrajdata, index0 * dof, data, 0,
                                             spec, copyelements, FALSE)
                            ELSE tr.vtrajdata
                 sourceindex == copyelements * sdof
                 index == index0 + copyelements
                 numelements == (Len(data) - sourceindex) \div sdof
                 vtemp == ConvertData(tr, Len(tr.spec), [k \in 1..(numelements * dof) |-> R(0)], 0,
                                      data, sourceindex, spec, numelements, TRUE)
             IN  Result([tr EXCEPT
                           !.vtrajdata = IF sourceindex < Len(data)
                                         THEN InsertData(written, index * dof, vtemp)
                                         ELSE written,
                           !.bChanged = TRUE], "none")

\* a Clone that stops after Init
CloneWithoutWaypoints(tr, r) ==
    LET inited == InitTraj(tr, r.spec)
    IN  IF ~r.bInit THEN Result(inited, "Assert")
        ELSE Result([inited EXCEPT !.bChanged = TRUE], "none")

\* Clone from trajectory r: Init with its specification, then its waypoints;
\* GetNumWaypoints of r fails when r is not initialised
CloneTraj(tr, r) ==
    LET inited == InitTraj(tr, r.spec)
    IN  IF ~r.bInit THEN Result(inited, "Assert")
        ELSE Result([inited EXCEPT
                       !.vtrajdata = Slice(r.vtrajdata, 0, GetNumWaypoints(r) * GetDOF(r.spec)),
                       !.bChanged = TRUE], "none")

\* an exchange that leaves the buffers where they are
SwappedFieldsWithoutData ==
    {"spec", "vderivoffsets", "vddoffsets", "vdddoffsets", "vintegraloffsets", "viioffsets",
     "timeoffset", "bInit", "vaccumtime", "vdeltainvtime", "bChanged", "bSamplingVerified"}

\* the members Swap exchanges
SwappedFields ==
    {"spec", "vderivoffsets", "vddoffsets", "vdddoffsets", "vintegraloffsets", "viioffsets",
     "timeoffset", "bInit", "vtrajdata", "vaccumtime", "vdeltainvtime", "bChanged",
     "bSamplingVerified"}

\* the fields of a taken from b where Swap exchanges them
Exchange(a, b) == [f \in DOMAIN a |-> IF f \in SwappedFields THEN b[f] ELSE a[f]]

\* this after Swap with other: the exchanged state, with its group functions
\* bound again
SwapThis(this, other) == InitializeGroupFunctions(Exchange(this, other))

\* the other trajectory after Swap: the exchanged state, its function objects
\* stay as they were bound
SwapOther(this, other) == Exchange(other, this)

-----------------------------------------------------------------------------
(* Inputs of the calls *)

SpecLinear == <<Group(<<"joint_values">>, 0, 1, "linear"), Group(<<"deltatime">>, 1, 1, "")>>

SpecPrevious == <<Group(<<"deltatime">>, 0, 1, ""), Group(<<"joint_values">>, 1, 1, "previous")>>

SpecTime == <<Group(<<"deltatime">>, 0, 1, "")>>

\* two lists of the same two groups of one category
SpecPairA == <<Group(<<"joint_values", "a">>, 0, 1, "linear"),
               Group(<<"joint_values", "b">>, 1, 1, "linear")>>

SpecPairB == <<Group(<<"joint_values", "b">>, 1, 1, "linear"),
               Group(<<"joint_values", "a">>, 0, 1, "linear")>>

\* the specifications handed to Init
Catalogue == {SpecLinear, SpecTime}

QueryCatalogue == {SpecLinear, SpecPrevious}

NegativeCatalogue == {SpecLinear}

\* the source specifications handed to Insert with the data
SourceCatalogue == {SpecLinear, SpecTime}

PairCatalogue == {SpecLinear, SpecTime}

CloneCatalogue == {SpecPairA, SpecPairB}

Values(maxvalue) == {R(x) : x \in 0..maxvalue}

Deltas(mindelta, maxdelta) == {R(x) : x \in mindelta..maxdelta}

\* the rows of a specification: a deltatime for the channel of the group
\* named deltatime, a value for every other channel
Rows(spec, values, deltas) ==
    LET dof == GetDOF(spec)
        toff == TimeOffsetOf(spec, Len(spec))
    IN  {r \in [1..dof -> values \cup deltas] :
            \A c \in 1..dof : IF c - 1 = toff THEN r[c] \in deltas ELSE r[c] \in values}

RECURSIVE Concats(_, _)
Concats(rows, k) ==
    IF k = 0 THEN {<<>>}
    ELSE LET shorter == Concats(rows, k - 1)
         IN  shorter \cup {a \o r : a \in shorter, r \in rows}

\* the data handed to an insert: up to maxrows whole rows, and one vector
\* that is no whole number of rows
DataSet(spec, values, deltas, maxrows) ==
    Concats(Rows(spec, values, deltas), maxrows)
       \cup (IF GetDOF(spec) = 1 THEN {} ELSE {<<R(0)>>})

Times == {RNorm(k, 2) : k \in 0..MaxTimeTicks}

\* the waypoint indices handed to the calls; the buffer holds fewer than cap
\* waypoints most of the time, so they reach past its end
Indices(cap) == 0..cap

-----------------------------------------------------------------------------
(* The calls *)

\* what the last call was and how it ended
Ret(op, id, err, args, val) == [op |-> op, id |-> id, err |-> err, args |-> args, val |-> val]

\* the record kept of a mutation: all of it, the outcome and the sizes of an
\* insert, the call and the object alone, or nothing
Observe(level, full) ==
    CASE level = "full" -> full
      [] level = "size" ->
            Ret(full.op, full.id, full.err,
                IF full.op \in {"Insert", "InsertSpec"}
                THEN [n |-> full.args.n, dof |-> full.args.dof] ELSE <<>>,
                <<>>)
      [] level = "err" -> Ret(full.op, full.id, full.err, <<>>, <<>>)
      [] level = "op" -> Ret(full.op, full.id, "none", <<>>, <<>>)
      [] OTHER -> Ret("Mutation", 0, "none", <<>>, <<>>)

Finish(id, t, result) ==
    /\ traj' = [traj EXCEPT ![id] = t]
    /\ ret' = result

WithinCap(t, cap) == Len(t.vtrajdata) <= cap * GetDOF(t.spec)

\* before is the number of waypoints the call found, dof the number of
\* channels of a row of data
InsertArgs(before, dof, index, data, bOverwrite, err) ==
    [before |-> before, dof |-> dof, index |-> index, n |-> Len(data),
     overwrite |-> bOverwrite, data |-> IF err = "none" THEN data ELSE <<>>]

RemoveArgs(before, startindex, endindex) ==
    [before |-> before, startindex |-> startindex, endindex |-> endindex]

DoInit(id, spec, level) ==
    Finish(id, InitTraj(traj[id], spec), Observe(level, Ret("Init", id, "none", <<>>, <<>>)))

DoInsert(id, index, data, bOverwrite, cap, level) ==
    LET r == InsertTraj(traj[id], index, data, bOverwrite)
    IN  /\ WithinCap(r.t, cap)
        /\ Finish(id, r.t,
                  Observe(level, Ret("Insert", id, r.err,
                                     InsertArgs(GetNumWaypoints(traj[id]), GetDOF(traj[id].spec),
                                                index, data, bOverwrite, r.err), <<>>)))

DoInsertSpec(id, index, data, spec, bOverwrite, cap, level) ==
    LET r == InsertSpecTraj(traj[id], index, data, spec, bOverwrite)
    IN  /\ WithinCap(r.t, cap)
        /\ Finish(id, r.t,
                  Observe(level, Ret("InsertSpec", id, r.err,
                                     InsertArgs(GetNumWaypoints(traj[id]), GetDOF(spec),
                                                index, data, bOverwrite, r.err), <<>>)))

DoRemove(id, startindex, endindex, level) ==
    LET r == RemoveTraj(traj[id], startindex, endindex)
    IN  Finish(id, r.t, Observe(level, Ret("Remove", id, r.err,
                                        RemoveArgs(GetNumWaypoints(traj[id]), startindex, endindex),
                                        <<>>)))

DoClearWaypoints(id, level) ==
    Finish(id, ClearWaypointsTraj(traj[id]),
           Observe(level, Ret("ClearWaypoints", id, "none", <<>>, <<>>)))

\* the time of a query is kept when the query returns
TimeArgs(time, err) == IF err = "none" THEN <<time>> ELSE <<>>

DoGetDuration(id) ==
    LET r == GetDurationTraj(traj[id])
    IN  Finish(id, r.t, Ret("GetDuration", id, r.err, <<>>, r.val))

DoGetFirstWaypointIndexAfterTime(id, time) ==
    LET r == GetFirstWaypointIndexAfterTimeTraj(traj[id], time)
    IN  Finish(id, r.t, Ret("GetFirstWaypointIndexAfterTime", id, r.err, TimeArgs(time, r.err), r.val))

DoSample(id, time, bVerify) ==
    LET r == SampleTraj(traj[id], time, bVerify)
    IN  Finish(id, r.t, Ret("Sample", id, r.err, TimeArgs(time, r.err), r.val))

DoClone(id, from, level) ==
    LET r == CloneTraj(traj[id], traj[from])
    IN  Finish(id, r.t, Observe(level, Ret("Clone", id, r.err, <<from>>, <<>>)))

DoSwap(id, other, level) ==
    /\ traj' = [traj EXCEPT ![id] = SwapThis(traj[id], traj[other]),
                            ![other] = SwapOther(traj[id], traj[other])]
    /\ ret' = Observe(level, Ret("Swap", id, "none", <<other>>, <<>>))

NoCall == Ret("none", 0, "none", <<>>, <<>>)

-----------------------------------------------------------------------------
(* One trajectory, the mutations of the waypoint buffer *)

Init ==
    /\ traj \in [{1} -> {NewTrajectory(b) : b \in BOOLEAN}]
    /\ ret = NoCall

Next ==
    \/ \E spec \in Catalogue : DoInit(1, spec, "full")
    \/ \E index \in Indices(MaxWaypoints), bOverwrite \in BOOLEAN :
          \E data \in DataSet(traj[1].spec, Values(MaxValue), Deltas(0, MaxDelta), MaxInsertRows) :
             DoInsert(1, index, data, bOverwrite, MaxWaypoints, "full")
    \/ \E startindex, endindex \in Indices(MaxWaypoints) :
          DoRemove(1, startindex, endindex, "full")
    \/ DoClearWaypoints(1, "full")

Spec == Init /\ [][Next]_vars

-----------------------------------------------------------------------------
(* One trajectory, the mutations interleaved with the queries *)

QueryStep(catalogue, values, deltas, level) ==
    \/ \E spec \in catalogue : DoInit(1, spec, level)
    \/ \E index \in Indices(QueryMaxWaypoints), bOverwrite \in BOOLEAN :
          \E data \in DataSet(traj[1].spec, values, deltas, QueryInsertRows) :
             DoInsert(1, index, data, bOverwrite, QueryMaxWaypoints, level)
    \/ \E startindex, endindex \in Indices(QueryMaxWaypoints) :
          DoRemove(1, startindex, endindex, level)
    \/ DoClearWaypoints(1, level)
    \/ DoGetDuration(1)
    \/ \E time \in Times : DoGetFirstWaypointIndexAfterTime(1, time)
    \/ \E time \in Times, bVerify \in BOOLEAN : DoSample(1, time, bVerify)

\* waypoints whose deltatime is not negative
NextQuery == QueryStep(QueryCatalogue, Values(MaxValue), Deltas(0, MaxDelta), "quiet")

SpecQuery == Init /\ [][NextQuery]_vars

\* waypoints whose deltatime may be negative
NextNegative == QueryStep(NegativeCatalogue, Values(NegMaxValue), Deltas(-1, MaxDelta), "quiet")

SpecNegative == Init /\ [][NextNegative]_vars

-----------------------------------------------------------------------------
(* One trajectory, the two inserts with their outcome, and GetDuration to
   rebuild the time index between them *)

NextInsert ==
    \/ \E spec \in Catalogue : DoInit(1, spec, "quiet")
    \/ \E index \in Indices(QueryMaxWaypoints), bOverwrite \in BOOLEAN :
          \E data \in DataSet(traj[1].spec, Values(NegMaxValue), Deltas(0, MaxDelta),
                              QueryInsertRows) :
             DoInsert(1, index, data, bOverwrite, QueryMaxWaypoints, "size")
    \/ \E index \in Indices(QueryMaxWaypoints), bOverwrite \in BOOLEAN, spec \in SourceCatalogue :
          \E data \in DataSet(spec, Values(NegMaxValue), Deltas(0, MaxDelta), QueryInsertRows) :
             DoInsertSpec(1, index, data, spec, bOverwrite, QueryMaxWaypoints, "size")
    \/ DoGetDuration(1)

SpecInsert == Init /\ [][NextInsert]_vars

-----------------------------------------------------------------------------
(* Two trajectories: the mutations, Clone and Swap *)

InitPair ==
    /\ traj \in [TrajIds -> {NewTrajectory(b) : b \in BOOLEAN}]
    /\ ret = NoCall

NextPair ==
    \E id \in TrajIds :
       \/ \E spec \in PairCatalogue : DoInit(id, spec, "op")
       \/ \E index \in Indices(PairMaxWaypoints), bOverwrite \in BOOLEAN :
             \E data \in DataSet(traj[id].spec, Values(PairMaxValue), Deltas(0, PairMaxDelta),
                                 PairInsertRows) :
                DoInsert(id, index, data, bOverwrite, PairMaxWaypoints, "op")
       \/ \E index \in Indices(PairMaxWaypoints), bOverwrite \in BOOLEAN, spec \in PairCatalogue :
             \E data \in DataSet(spec, Values(PairMaxValue), Deltas(0, PairMaxDelta),
                                 PairInsertRows) :
                DoInsertSpec(id, index, data, spec, bOverwrite, PairMaxWaypoints, "op")
       \/ \E startindex, endindex \in Indices(PairMaxWaypoints) :
             DoRemove(id, startindex, endindex, "op")
       \/ DoClearWaypoints(id, "op")
       \/ \E from \in TrajIds \ {id} : DoClone(id, from, "op")
       \/ \E other \in TrajIds \ {id} : DoSwap(id, other, "op")

SpecPair == InitPair /\ [][NextPair]_vars

-----------------------------------------------------------------------------
(* Two trajectories whose waypoints differ in value and in time: Init,
   Insert and Swap *)

NextSwap ==
    \E id \in TrajIds :
       \/ \E spec \in QueryCatalogue : DoInit(id, spec, "quiet")
       \/ \E index \in Indices(QueryMaxWaypoints) :
             \E data \in Rows(traj[id].spec, Values(MaxValue), Deltas(0, MaxDelta)) :
                DoInsert(id, index, data, FALSE, QueryMaxWaypoints, "quiet")
       \/ \E other \in TrajIds \ {id} : DoSwap(id, other, "op")

SpecSwap == InitPair /\ [][NextSwap]_vars

-----------------------------------------------------------------------------
(* Two trajectories of specifications with the same groups: the mutations
   and Clone *)

NextClone ==
    \E id \in TrajIds :
       \/ \E spec \in CloneCatalogue : DoInit(id, spec, "quiet")
       \/ \E index \in Indices(PairMaxWaypoints) :
             \E data \in Rows(traj[id].spec, Values(MaxValue), Deltas(0, MaxDelta)) :
                DoInsert(id, index, data, FALSE, PairMaxWaypoints, "quiet")
       \/ \E startindex, endindex \in Indices(PairMaxWaypoints) :
             DoRemove(id, startindex, endindex, "quiet")
       \/ DoClearWaypoints(id, "quiet")
       \/ \E from \in TrajIds \ {id} : DoClone(id, from, "err")

SpecClone == InitPair /\ [][NextClone]_vars

-----------------------------------------------------------------------------
(* Properties of the waypoint buffer *)

\* waypoint i (counted from 0) of a buffer v of rows of dof channels
RowOf(v, dof, i) == Slice(v, i * dof, dof)

Waypoint(tr, i) == RowOf(tr.vtrajdata, GetDOF(tr.spec), i)

Max(a, b) == IF a > b THEN a ELSE b

\* C1: after any sequence of Init, Insert, Insert with a specification,
\* Remove, ClearWaypoints, Clone and Swap, failing calls included, the length
\* of the buffer of every trajectory is a multiple of the number of channels
\* of its specification.
C1_BufferHoldsWholeRows ==
    \A id \in DOMAIN traj :
       LET dof == GetDOF(traj[id].spec)
       IN  IF dof = 0 THEN Len(traj[id].vtrajdata) = 0
           ELSE Len(traj[id].vtrajdata) % dof = 0

\* a Swap has exchanged two buffers of rows of different widths
C1_Witness ==
    /\ ret.op = "Swap"
    /\ \A id \in DOMAIN traj : Len(traj[id].vtrajdata) > 0
    /\ \E a, b \in DOMAIN traj : GetDOF(traj[a].spec) # GetDOF(traj[b].spec)

\* what an Insert that returned leaves: old and new are the buffers before and
\* after, a the arguments of the call
InsertPost(old, new, dof, a) ==
    LET N == Len(old) \div dof
        m == a.n \div dof
        index == a.index
    IN  IF a.overwrite /\ index < N
        THEN /\ Len(new) = Max(N, index + m) * dof
             /\ \A i \in index..(Min(N, index + m) - 1) :
                   RowOf(new, dof, i) = RowOf(a.data, dof, i - index)
             /\ \A i \in N..(index + m - 1) :
                   RowOf(new, dof, i) = RowOf(a.data, dof, i - index)
             /\ \A i \in 0..(N - 1) :
                   (i < index \/ i >= index + m) => RowOf(new, dof, i) = RowOf(old, dof, i)
        ELSE /\ Len(new) = (N + m) * dof
             /\ \A i \in 0..(index - 1) : RowOf(new, dof, i) = RowOf(old, dof, i)
             /\ \A j \in 0..(m - 1) : RowOf(new, dof, index + j) = RowOf(a.data, dof, j)
             /\ \A i \in index..(N - 1) : RowOf(new, dof, i + m) = RowOf(old, dof, i)

\* C2: an Insert of m >= 1 rows at index into N rows that returns: with
\* overwrite and index < N the rows [index, min(N, index+m)) become the
\* leading rows of data, the rest of data follows the last old row, the other
\* old rows stay and the count is max(N, index+m); otherwise data takes the
\* rows [index, index+m) and the old rows [index, N) move to [index+m, N+m).
C2_InsertPlacesRows ==
    [][(ret'.op = "Insert" /\ ret'.err = "none" /\ ret'.args.n > 0)
          => InsertPost(traj[1].vtrajdata, traj'[1].vtrajdata, GetDOF(traj[1].spec), ret'.args)]_vars

\* an overwriting Insert that replaced old rows and ran past the last one,
\* with an old row in front of it
C2_Witness ==
    /\ ret.op = "Insert" /\ ret.err = "none"
    /\ ret.args.overwrite
    /\ 0 < ret.args.index /\ ret.args.index < ret.args.before
    /\ ret.args.index + (ret.args.n \div GetDOF(traj[1].spec)) > ret.args.before

\* what a Remove of [startindex, endindex) leaves
RemovePost(old, new, dof, startindex, endindex) ==
    LET N == Len(old) \div dof
    IN  /\ Len(new) = (N - (endindex - startindex)) * dof
        /\ \A i \in 0..(startindex - 1) : RowOf(new, dof, i) = RowOf(old, dof, i)
        /\ \A j \in 0..(N - endindex - 1) :
              RowOf(new, dof, startindex + j) = RowOf(old, dof, endindex + j)

\* C3: Remove(startindex, endindex) with startindex <= endindex <= N leaves
\* N - (endindex - startindex) rows: the rows in front of startindex stay and
\* row startindex + j is the old row endindex + j.
C3_RemoveClosesGap ==
    [][(/\ ret'.op = "Remove" /\ ret'.err = "none"
        /\ ret'.args.startindex <= ret'.args.endindex
        /\ ret'.args.endindex <= GetNumWaypoints(traj[1]))
          => RemovePost(traj[1].vtrajdata, traj'[1].vtrajdata, GetDOF(traj[1].spec),
                        ret'.args.startindex, ret'.args.endindex)]_vars

\* a Remove from the middle: rows stay in front of the gap and rows move down
C3_Witness ==
    /\ ret.op = "Remove" /\ ret.err = "none"
    /\ 0 < ret.args.startindex /\ ret.args.startindex < ret.args.endindex
    /\ ret.args.endindex < ret.args.before
    /\ Waypoint(traj[1], 0) # Waypoint(traj[1], 1)

\* C10: an Insert whose index is larger than the waypoint count fails with an
\* error for every data argument, a Remove whose startindex or endindex is
\* larger than the count fails for every pair of them, and the buffer stays
\* as it was.
C10_OutOfRangeFails ==
    [][/\ (ret'.op = "Insert" /\ ret'.args.index > GetNumWaypoints(traj[1]))
             => (ret'.err # "none" /\ traj'[1].vtrajdata = traj[1].vtrajdata)
       /\ (/\ ret'.op = "Remove"
           /\ \/ ret'.args.startindex > GetNumWaypoints(traj[1])
              \/ ret'.args.endindex > GetNumWaypoints(traj[1]))
             => (ret'.err # "none" /\ traj'[1].vtrajdata = traj[1].vtrajdata)]_vars

-----------------------------------------------------------------------------
(* Properties of the time index and of the sampler *)

Queries == {"GetDuration", "GetFirstWaypointIndexAfterTime", "Sample"}

\* the deltatime stored in waypoint i
DeltaOf(tr, i) == At(tr.vtrajdata, i * GetDOF(tr.spec) + tr.timeoffset)

\* deltatime[0] + ... + deltatime[i] of the buffer as it is
RECURSIVE PrefixSum(_, _)
PrefixSum(tr, i) ==
    IF i = 0 THEN DeltaOf(tr, 0) ELSE RAdd(PrefixSum(tr, i - 1), DeltaOf(tr, i))

Duration(tr) ==
    IF GetNumWaypoints(tr) = 0 THEN R(0) ELSE PrefixSum(tr, GetNumWaypoints(tr) - 1)

DeltasNonNegative(tr) ==
    \A i \in 0..(GetNumWaypoints(tr) - 1) : RGe(DeltaOf(tr, i), R(0))

NegativeAfterFirst(tr) ==
    \E i \in 1..(GetNumWaypoints(tr) - 1) : RLt(DeltaOf(tr, i), R(0))

\* the smallest waypoint index whose accumulated time is not less than time
SegmentEnd(tr, time) ==
    CHOOSE i \in 0..(GetNumWaypoints(tr) - 1) :
       /\ RGe(PrefixSum(tr, i), time)
       /\ \A j \in 0..(i - 1) : RLt(PrefixSum(tr, j), time)

\* C4: with a deltatime group and no negative deltatime in the buffer, after
\* any mutations interleaved with queries a query that returns has left
\* accum[i] = deltatime[0] + ... + deltatime[i] of the buffer as it is now,
\* and GetDuration returns accum[N-1], or 0 for an empty buffer, never a
\* value of an older buffer.
C4_TimeIndexIsCurrent ==
    (/\ ret.op \in Queries /\ ret.err = "none"
     /\ traj[1].timeoffset >= 0
     /\ DeltasNonNegative(traj[1]))
       => /\ Len(traj[1].vaccumtime) = GetNumWaypoints(traj[1])
          /\ \A i \in 0..(GetNumWaypoints(traj[1]) - 1) :
                At(traj[1].vaccumtime, i) = PrefixSum(traj[1], i)
          /\ ret.op = "GetDuration" => ret.val = Duration(traj[1])

\* GetDuration has answered 2 over two waypoints of deltatime 1
C4_Witness ==
    /\ ret.op = "GetDuration" /\ ret.err = "none"
    /\ GetNumWaypoints(traj[1]) = 2
    /\ DeltasNonNegative(traj[1])
    /\ RGt(DeltaOf(traj[1], 1), R(0))
    /\ ret.val = R(2)

\* C5: on a non-empty trajectory a Sample at a time >= the duration returns
\* the last waypoint as stored, its deltatime channel included.
C5_SampleAtEndIsLastRow ==
    (/\ ret.op = "Sample" /\ ret.err = "none"
     /\ GetNumWaypoints(traj[1]) >= 1
     /\ RGe(ret.args[1], Duration(traj[1])))
       => ret.val = Waypoint(traj[1], GetNumWaypoints(traj[1]) - 1)

\* a Sample past the end of two waypoints whose last deltatime is neither the
\* time asked for nor the time past the last segment
C5_Witness ==
    /\ ret.op = "Sample" /\ ret.err = "none"
    /\ GetNumWaypoints(traj[1]) = 2
    /\ RGt(ret.args[1], Duration(traj[1]))
    /\ DeltaOf(traj[1], 1) = R(1)
    /\ ret.args[1] # R(1)
    /\ Waypoint(traj[1], 0) # Waypoint(traj[1], 1)

\* the sample is the first waypoint with 0 in its deltatime channel
IsFirstRowAtZero(tr, val) ==
    /\ Len(val) = GetDOF(tr.spec)
    /\ \A c \in 0..(GetDOF(tr.spec) - 1) :
          At(val, c) = IF c = tr.timeoffset THEN R(0) ELSE At(Waypoint(tr, 0), c)

\* C6 as stated: on a non-empty trajectory without negative deltatime a
\* Sample at time 0 returns the channels of the first waypoint and 0 in the
\* deltatime channel.
C6_SampleAtZeroIsFirstRow ==
    (/\ ret.op = "Sample" /\ ret.err = "none"
     /\ GetNumWaypoints(traj[1]) >= 1
     /\ DeltasNonNegative(traj[1])
     /\ ret.args[1] = R(0))
       => IsFirstRowAtZero(traj[1], ret.val)

\* C6 amended: on a non-empty trajectory without negative deltatime that has
\* one waypoint or a duration above 0, a Sample at time 0 returns the
\* channels of the first waypoint and 0 in the deltatime channel.
C6_SampleAtZeroOfPositiveDuration ==
    (/\ ret.op = "Sample" /\ ret.err = "none"
     /\ GetNumWaypoints(traj[1]) >= 1
     /\ DeltasNonNegative(traj[1])
     /\ ret.args[1] = R(0)
     /\ GetNumWaypoints(traj[1]) = 1 \/ RGt(Duration(traj[1]), R(0)))
       => IsFirstRowAtZero(traj[1], ret.val)

\* a Sample at 0 of two different waypoints, the first with a deltatime
\* above 0 that the sample has replaced by 0
C6_Witness ==
    /\ ret.op = "Sample" /\ ret.err = "none"
    /\ ret.args[1] = R(0)
    /\ GetNumWaypoints(traj[1]) = 2
    /\ RGt(DeltaOf(traj[1], 0), R(0))
    /\ RGt(Duration(traj[1]), R(0))
    /\ Waypoint(traj[1], 0) # Waypoint(traj[1], 1)
    /\ At(ret.val, traj[1].timeoffset) = R(0)

\* C7: a Sample at a time below the duration that falls in the segment ending
\* at waypoint i >= 1, the smallest i with accum[i] >= time, returns in the
\* deltatime channel the time elapsed in the segment, time - accum[i-1]
\* clamped to [0, deltatime[i]], and not the time asked for.
C7_SampleOffsetIsSegmentTime ==
    (/\ ret.op = "Sample" /\ ret.err = "none"
     /\ RLt(ret.args[1], Duration(traj[1]))
     /\ SegmentEnd(traj[1], ret.args[1]) >= 1)
       => LET i == SegmentEnd(traj[1], ret.args[1])
              toff == At(ret.val, traj[1].timeoffset)
          IN  /\ toff = ClampDelta(RSub(ret.args[1], PrefixSum(traj[1], i - 1)),
                                   DeltaOf(traj[1], i))
              /\ RGe(toff, R(0))
              /\ RLe(toff, DeltaOf(traj[1], i))

\* a Sample inside the second segment, where the segment time differs from
\* the time asked for
C7_Witness ==
    /\ ret.op = "Sample" /\ ret.err = "none"
    /\ GetNumWaypoints(traj[1]) = 2
    /\ RGt(DeltaOf(traj[1], 0), R(0))
    /\ RGt(ret.args[1], PrefixSum(traj[1], 0))
    /\ RLt(ret.args[1], Duration(traj[1]))
    /\ At(ret.val, traj[1].timeoffset) # ret.args[1]

\* C8: GetFirstWaypointIndexAfterTime(time) returns 0 when time < accum[0],
\* N when time >= accum[N-1], else the smallest i with accum[i] >= time; the
\* result is in [0, N].
C8_FirstWaypointIndexAfterTime ==
    (/\ ret.op = "GetFirstWaypointIndexAfterTime" /\ ret.err = "none"
     /\ DeltasNonNegative(traj[1]))
       => LET N == GetNumWaypoints(traj[1])
              time == ret.args[1]
          IN  /\ ret.val \in 0..N
              /\ N > 0 =>
                   ret.val = IF RLt(time, PrefixSum(traj[1], 0)) THEN 0
                             ELSE IF RGe(time, PrefixSum(traj[1], N - 1)) THEN N
                             ELSE SegmentEnd(traj[1], time)

\* a time between accum[0] and accum[N-1]: the answer is the waypoint that
\* ends the segment
C8_Witness ==
    /\ ret.op = "GetFirstWaypointIndexAfterTime" /\ ret.err = "none"
    /\ GetNumWaypoints(traj[1]) = 2
    /\ RGe(ret.args[1], PrefixSum(traj[1], 0))
    /\ RLt(ret.args[1], Duration(traj[1]))
    /\ ret.val = 1

\* C9: while the buffer holds a waypoint i >= 1 with a negative deltatime, a
\* call of GetDuration, GetFirstWaypointIndexAfterTime or Sample fails with
\* InvalidState.
C9_NegativeDeltaFailsQueries ==
    (ret.op \in Queries /\ NegativeAfterFirst(traj[1])) => ret.err = "InvalidState"

\* a Sample has failed on the negative deltatime of the second of two
\* waypoints
C9_Witness ==
    /\ ret.op = "Sample" /\ ret.err = "InvalidState"
    /\ GetNumWaypoints(traj[1]) = 2
    /\ RLt(DeltaOf(traj[1], 1), R(0))

-----------------------------------------------------------------------------
(* Properties of the failing inserts *)

\* C11: an Insert, with or without a source specification, of data whose
\* length is no multiple of the number of channels of a row fails with
\* InvalidArguments and leaves the waypoint buffer, the waypoint count and
\* _bChanged as they were.
C11_MisalignedInsertFails ==
    [][(/\ ret'.op \in {"Insert", "InsertSpec"}
        /\ traj[1].bInit
        /\ ret'.args.dof > 0
        /\ ret'.args.n % ret'.args.dof # 0)
          => /\ ret'.err = "InvalidArguments"
             /\ traj'[1].vtrajdata = traj[1].vtrajdata
             /\ GetNumWaypoints(traj'[1]) = GetNumWaypoints(traj[1])
             /\ traj'[1].bChanged = traj[1].bChanged]_vars

\* an Insert of one value into rows of two channels has failed while the
\* time index of a waypoint was up to date
C11_Witness ==
    /\ ret.op = "Insert" /\ ret.err = "InvalidArguments"
    /\ ret.args.n = 1 /\ ret.args.dof = 2
    /\ GetNumWaypoints(traj[1]) >= 1
    /\ ~traj[1].bChanged

-----------------------------------------------------------------------------
(* Properties of Swap and Clone *)

\* what a caller reads of a query: the exception thrown and the value returned
Outcome(answer) == <<answer.err, answer.val>>

\* trajectory x shows what trajectory y showed: specification, waypoints,
\* duration and the sample at every time
ShowsStateOf(x, y) ==
    /\ x.spec = y.spec
    /\ x.vtrajdata = y.vtrajdata
    /\ Outcome(GetDurationTraj(x)) = Outcome(GetDurationTraj(y))
    /\ \A time \in Times :
          Outcome(SampleTraj(x, time, FALSE)) = Outcome(SampleTraj(y, time, FALSE))

\* C12: after a Swap of two initialised trajectories each of them has the
\* state the other had: specification, waypoints, duration and the sample at
\* every time, also when the two specifications differ in their groups or
\* interpolation labels.
C12_SwapExchangesFullState ==
    [][(ret'.op = "Swap" /\ traj[1].bInit /\ traj[2].bInit)
          => /\ ShowsStateOf(traj'[1], traj[2])
             /\ ShowsStateOf(traj'[2], traj[1])]_vars

OtherTraj(id) == CHOOSE o \in TrajIds : o # id

\* the same groups, whatever their order in the two lists
SameGroups(a, b) ==
    /\ Len(a) = Len(b)
    /\ {a[i] : i \in 1..Len(a)} = {b[i] : i \in 1..Len(b)}

\* a mutation of one trajectory leaves the specification and the waypoints
\* of the other as they were
MutationIsLocal ==
    ret'.op = "Mutation"
       => \E id \in TrajIds :
             /\ traj'[OtherTraj(id)].spec = traj[OtherTraj(id)].spec
             /\ traj'[OtherTraj(id)].vtrajdata = traj[OtherTraj(id)].vtrajdata

-----------------------------------------------------------------------------
(* Binary serializer.  A string is a sequence of characters, the character  *)
(* "NUL" standing for the zero byte; a stream is the sequence of the fields *)
(* written, a number for every integer or dReal field and the characters of *)
(* every string after its length.                                           *)

BINARY_TRAJECTORY_MAGIC_NUMBER == 25343

BINARY_TRAJECTORY_VERSION_NUMBER == 3

\* std::string(const char*): the characters before the first zero byte
RECURSIVE CString(_)
CString(s) ==
    IF s = <<>> \/ Head(s) = "NUL" THEN <<>> ELSE <<Head(s)>> \o CString(Tail(s))

WriteBinaryUInt16(value) == <<value % 65536>>

\* a count of the model is far below 2^32, the conversion keeps it
WriteBinaryUInt32(value) == <<value>>

WriteBinaryInt(value) == <<value>>

\* the lengths of the model stay below 65536, the assertion of the code holds
WriteBinaryString(s) == WriteBinaryUInt16(Len(s)) \o s

WriteBinaryVector(v) == WriteBinaryUInt32(Len(v)) \o v

\* the reads of a field at position I: the value and the position after it
ReadBinaryUInt16(s, I) == [val |-> s[I], I |-> I + 1]

ReadBinaryUInt32(s, I) == [val |-> s[I], I |-> I + 1]

ReadBinaryInt(s, I) == [val |-> s[I], I |-> I + 1]

ReadBinaryString(s, I) ==
    LET length == ReadBinaryUInt16(s, I)
    IN  [val |-> SubSeq(s, length.I, length.I + length.val - 1), I |-> length.I + length.val]

ReadBinaryVector(s, I) ==
    LET numDataPoints == ReadBinaryUInt32(s, I)
    IN  [val |-> SubSeq(s, numDataPoints.I, numDataPoints.I + numDataPoints.val - 1),
         I |-> numDataPoints.I + numDataPoints.val]

\* Readable annotations of the interface: a map from id to readable, walked
\* in the order of the ids
StringReadable(data) == [kind |-> "StringReadable", data |-> data]

HierarchicalXMLReadable(data) == [kind |-> "HierarchicalXMLReadable", data |-> data]

\* a readable that writes itself as markup without being hierarchical, and
\* one that writes itself neither as JSON nor as markup
XMLReadable(data) == [kind |-> "XMLReadable", data |-> data]

OpaqueReadable(data) == [kind |-> "OpaqueReadable", data |-> data]

ReadableOrder == << <<"r">>, <<"s">> >>

SetReadableInterface(map, id, readable) ==
    [x \in DOMAIN map \cup {id} |-> IF x = id THEN readable ELSE map[x]]

ClearReadableInterfaces(map) == [x \in {} |-> StringReadable(<<>>)]

\* a string readable gives its data as a JSON string value
SerializeJSON(readable) ==
    [ok |-> readable.kind = "StringReadable", value |-> readable.data]

\* the markup a writer with the root tag gives
StreamXMLWriter(tag, data) ==
    IF tag = <<>> THEN data ELSE <<"<">> \o tag \o <<">">> \o data \o <<"</">> \o tag \o <<">">>

SerializeXML(readable) ==
    [ok |-> readable.kind \in {"HierarchicalXMLReadable", "XMLReadable"}, value |-> readable.data]

\* the parse of markup by the hierarchical reader: the list of the children
\* of the reader's readable, one readable a root element
ParseXMLData(payload) ==
    LET n == Len(payload)
    IN  IF /\ n >= 6
           /\ SubSeq(payload, 1, 3) = <<"<", "root", ">">>
           /\ SubSeq(payload, n - 2, n) = <<"</", "root", ">">>
        THEN <<HierarchicalXMLReadable(SubSeq(payload, 4, n - 3))>>
        ELSE <<>>

\* the payload and the reader type written for one readable
WriteReadable(readable) ==
    IF SerializeJSON(readable).ok
    THEN WriteBinaryString(CString(SerializeJSON(readable).value))
            \o WriteBinaryString(<<"StringReadable">>)
    ELSE IF readable.kind = "HierarchicalXMLReadable"
    THEN WriteBinaryString(StreamXMLWriter(<<"root">>, SerializeXML(readable).value))
            \o WriteBinaryString(<<"HierarchicalXMLReadable">>)
    ELSE IF SerializeXML(readable).ok
    THEN WriteBinaryString(StreamXMLWriter(<<>>, SerializeXML(readable).value))
            \o WriteBinaryString(<<"StringReadable">>)
    ELSE WriteBinaryString(<<>>) \o WriteBinaryString(<<"StringReadable">>)

RECURSIVE WriteGroups(_, _)
WriteGroups(groups, k) ==
    IF k > Len(groups) THEN <<>>
    ELSE WriteBinaryString(groups[k].name) \o WriteBinaryInt(groups[k].offset)
            \o WriteBinaryInt(groups[k].dof) \o WriteBinaryString(<<groups[k].interpolation>>)
            \o WriteGroups(groups, k + 1)

RECURSIVE WriteReadables(_, _)
WriteReadables(map, k) ==
    IF k > Len(ReadableOrder) THEN <<>>
    ELSE (IF ReadableOrder[k] \in DOMAIN map
          THEN WriteBinaryString(ReadableOrder[k]) \o WriteReadable(map[ReadableOrder[k]])
          ELSE <<>>)
            \o WriteReadables(map, k + 1)

\* serialize without TSO_SerializeAsXML
Serialize(tr) ==
    WriteBinaryUInt16(BINARY_TRAJECTORY_MAGIC_NUMBER)
       \o WriteBinaryUInt16(BINARY_TRAJECTORY_VERSION_NUMBER)
       \o WriteBinaryUInt16(Len(tr.spec))
       \o WriteGroups(tr.spec, 1)
       \o WriteBinaryVector(tr.vtrajdata)
       \o WriteBinaryString(tr.description)
       \o WriteBinaryUInt16(Cardinality(DOMAIN tr.readables))
       \o WriteReadables(tr.readables, 1)

RECURSIVE ReadGroups(_, _, _)
ReadGroups(s, I, numGroups) ==
    IF numGroups = 0 THEN [val |-> <<>>, I |-> I]
    ELSE LET name == ReadBinaryString(s, I)
             offset == ReadBinaryInt(s, name.I)
             dof == ReadBinaryInt(s, offset.I)
             interpolation == ReadBinaryString(s, dof.I)
             rest == ReadGroups(s, interpolation.I, numGroups - 1)
         IN  [val |-> <<Group(name.val, offset.val, dof.val,
                              IF interpolation.val = <<>> THEN "" ELSE interpolation.val[1])>>
                         \o rest.val,
              I |-> rest.I]

\* the readable made of one entry of the stream; <<>> stands for none
ReadReadable(versionNumber, serializedReadableInterface, readerType) ==
    IF versionNumber >= 3 /\ readerType = <<"HierarchicalXMLReadable">>
    THEN LET listchildren == ParseXMLData(serializedReadableInterface)
         IN  IF Len(listchildren) = 1 THEN listchildren[1]
             ELSE HierarchicalXMLReadable(serializedReadableInterface)
    ELSE StringReadable(serializedReadableInterface)

RECURSIVE ReadReadables(_, _, _, _, _)
ReadReadables(s, I, versionNumber, numReadableInterfaces, map) ==
    IF numReadableInterfaces = 0 THEN map
    ELSE LET xmlid == ReadBinaryString(s, I)
             serializedReadableInterface == ReadBinaryString(s, xmlid.I)
             readerType == IF versionNumber >= 3
                           THEN ReadBinaryString(s, serializedReadableInterface.I)
                           ELSE [val |-> <<>>, I |-> serializedReadableInterface.I]
         IN  ReadReadables(s, readerType.I, versionNumber, numReadableInterfaces - 1,
                           SetReadableInterface(map, xmlid.val,
                                                ReadReadable(versionNumber,
                                                             serializedReadableInterface.val,
                                                             readerType.val)))

\* the readables after the description: none before version 2
ReadAnnotationsKeeping(tr, s, I, versionNumber) ==
    IF versionNumber >= 2
    THEN LET numReadableInterfaces == ReadBinaryUInt16(s, I)
         IN  ReadReadables(s, numReadableInterfaces.I, versionNumber,
                           numReadableInterfaces.val, tr.readables)
    ELSE tr.readables

ReadAnnotations(tr, s, I, versionNumber) ==
    IF versionNumber >= 2
    THEN LET numReadableInterfaces == ReadBinaryUInt16(s, I)
         IN  ReadReadables(s, numReadableInterfaces.I, versionNumber,
                           numReadableInterfaces.val, ClearReadableInterfaces(tr.readables))
    ELSE ClearReadableInterfaces(tr.readables)

ReadVersion(s, I) == ReadBinaryUInt16(s, I)

\* the reader from the description on: t is the trajectory after Init with
\* the waypoint buffer read
ReadDescription(tr, s, versionNumber, t, description) ==
    Result([t EXCEPT !.description = description.val,
                     !.readables = ReadAnnotations(tr, s, description.I, versionNumber)],
           "none")

\* the reader from the waypoint buffer on: init is the trajectory after Init
ReadData(tr, s, versionNumber, init, data) ==
    ReadDescription(tr, s, versionNumber, [init EXCEPT !.vtrajdata = data.val],
                    ReadBinaryString(s, data.I))

\* the reader after the groups: _bInit = false, Init(_spec), and the rest
ReadAfterGroups(tr, s, versionNumber, groups) ==
    ReadData(tr, s, versionNumber,
             InitTraj([tr EXCEPT !.bInit = FALSE, !.spec = groups.val], groups.val),
             ReadBinaryVector(s, groups.I))

ReadAfterVersion(tr, s, versionNumber) ==
    IF versionNumber.val > BINARY_TRAJECTORY_VERSION_NUMBER \/ versionNumber.val < 1
    THEN Result(tr, "InvalidArguments")
    ELSE LET numGroups == ReadBinaryUInt16(s, versionNumber.I)
         IN  ReadAfterGroups(tr, s, versionNumber.val,
                             ReadGroups(s, numGroups.I, numGroups.val))

\* the part of both readers after the magic number
ReadBinaryTrajectory(tr, s, I) == ReadAfterVersion(tr, s, ReadVersion(s, I))

\* a stream without the magic number goes to the reader of the base class,
\* which the model leaves out
Deserialize(tr, s) ==
    IF Len(s) = 0 THEN Result(tr, "InvalidArguments")
    ELSE LET binaryFileHeader == ReadBinaryUInt16(s, 1)
         IN  IF binaryFileHeader.val = BINARY_TRAJECTORY_MAGIC_NUMBER
             THEN ReadBinaryTrajectory(tr, s, binaryFileHeader.I)
             ELSE Result(tr, "XML")

DeserializeFromRawData(tr, pdata) ==
    LET binaryFileHeader == ReadBinaryUInt16(pdata, 1)
    IN  IF binaryFileHeader.val = BINARY_TRAJECTORY_MAGIC_NUMBER
        THEN ReadBinaryTrajectory(tr, pdata, binaryFileHeader.I)
        ELSE Result(tr, "XML")


-----------------------------------------------------------------------------
(* Two trajectories with description and readable annotations: one is       *)
(* written to a stream, the stream is read into the other                   *)

NewInterface(b) ==
    NewTrajectory(b) @@ [description |-> <<>>, readables |-> ClearReadableInterfaces(<<>>)]

Descriptions == {<<>>, <<"a", "NUL">>}

ReadableSet(id) ==
    IF id = ReadableOrder[1]
    THEN {StringReadable(<<"a">>), StringReadable(<<"a", "NUL", "a">>),
          HierarchicalXMLReadable(<<"a">>), XMLReadable(<<"a">>), OpaqueReadable(<<"a">>)}
    ELSE {StringReadable(<<"a">>)}

Readers == {"deserialize", "DeserializeFromRawData"}

CallReader(reader, tr, s) ==
    IF reader = "deserialize" THEN Deserialize(tr, s) ELSE DeserializeFromRawData(tr, s)

DoSetDescription(id, description) ==
    Finish(id, [traj[id] EXCEPT !.description = description],
           Observe("quiet", Ret("SetDescription", id, "none", <<>>, <<>>)))

DoSetReadableInterface(id, xmlid, readable) ==
    Finish(id, [traj[id] EXCEPT !.readables = SetReadableInterface(@, xmlid, readable)],
           Observe("quiet", Ret("SetReadableInterface", id, "none", <<>>, <<>>)))

DoSerialize(id) ==
    /\ ret' = Ret("serialize", id, "none", <<>>, Serialize(traj[id]))
    /\ UNCHANGED traj

\* the reader ends with the outcome r and is observed with args
FinishRead(id, reader, r, args) == Finish(id, r.t, Ret(reader, id, r.err, args, <<>>))

\* the stream the last call wrote is read into trajectory id
DoDeserialize(id, reader) ==
    /\ ret.op = "serialize"
    /\ FinishRead(id, reader, CallReader(reader, traj[id], ret.val), [from |-> ret.id])

InitSerial ==
    /\ traj \in [TrajIds -> {NewInterface(TRUE)}]
    /\ ret = NoCall

NextSerial ==
    \/ \E id \in TrajIds, spec \in QueryCatalogue : DoInit(id, spec, "quiet")
    \/ \E data \in Rows(traj[1].spec, Values(MaxValue), Deltas(0, PairMaxDelta)) :
          DoInsert(1, 0, data, FALSE, SerialMaxWaypoints, "quiet")
    \/ \E description \in Descriptions : DoSetDescription(1, description)
    \/ \E k \in 1..Len(ReadableOrder) : \E readable \in ReadableSet(ReadableOrder[k]) :
          DoSetReadableInterface(1, ReadableOrder[k], readable)
    \/ DoSerialize(1)
    \/ \E reader \in Readers : DoDeserialize(2, reader)

SpecSerial == InitSerial /\ [][NextSerial]_vars


-----------------------------------------------------------------------------
(* Binary round trip *)

\* the readables of tr are of the two kinds the interface describes: a
\* string readable and a hierarchical markup readable
DescribedReadables(tr) ==
    \A id \in DOMAIN tr.readables :
       tr.readables[id].kind \in {"StringReadable", "HierarchicalXMLReadable"}

SameReadables(a, b) ==
    /\ DOMAIN a.readables = DOMAIN b.readables
    /\ \A id \in DOMAIN a.readables : a.readables[id].data = b.readables[id].data

\* C14: when the stream written by serialize for an initialized trajectory is
\* read into another trajectory, whatever that one held, the reader succeeds
\* and the other trajectory has the same groups in the same order, the same
\* waypoint buffer, the same description and the same readables by id and
\* payload as the written one.
C14_BinaryRoundTrip ==
    [][(/\ ret'.op \in Readers
        /\ ret.op = "serialize"
        /\ traj[ret.id].bInit
        /\ DescribedReadables(traj[ret.id]))
          => /\ ret'.err = "none"
             /\ traj'[ret'.id].spec = traj[ret.id].spec
             /\ traj'[ret'.id].vtrajdata = traj[ret.id].vtrajdata
             /\ traj'[ret'.id].description = traj[ret.id].description
             /\ SameReadables(traj'[ret'.id], traj[ret.id])]_vars


-----------------------------------------------------------------------------
(* One trajectory that reads streams of every version of the layout *)

\* an entry of the readable section of a stream
Entry(id, payload, tag) == [id |-> id, payload |-> payload, tag |-> tag]

RECURSIVE EncodeEntries(_, _, _)
EncodeEntries(entries, version, k) ==
    IF k > Len(entries) THEN <<>>
    ELSE WriteBinaryString(entries[k].id) \o WriteBinaryString(entries[k].payload)
            \o (IF version >= 3 THEN WriteBinaryString(entries[k].tag) ELSE <<>>)
            \o EncodeEntries(entries, version, k + 1)

\* the stream of the layout of a version: no readable section before
\* version 2, no reader types before version 3
Encode(version, groups, data, description, entries) ==
    WriteBinaryUInt16(BINARY_TRAJECTORY_MAGIC_NUMBER)
       \o WriteBinaryUInt16(version)
       \o WriteBinaryUInt16(Len(groups))
       \o WriteGroups(groups, 1)
       \o WriteBinaryVector(data)
       \o WriteBinaryString(description)
       \o (IF version >= 2
           THEN WriteBinaryUInt16(Len(entries)) \o EncodeEntries(entries, version, 1)
           ELSE <<>>)

Versions == 0..(BINARY_TRAJECTORY_VERSION_NUMBER + 1)

Payloads == {<<"a">>, StreamXMLWriter(<<"root">>, <<"a">>)}

Tags == {<<"StringReadable">>, <<"HierarchicalXMLReadable">>, <<"JSONReadable">>}

EntrySet(id) == {Entry(id, payload, tag) : payload \in Payloads, tag \in Tags}

\* no entry, one entry, and two entries: markup with the reader type of a
\* string readable, then text with the hierarchical reader type
EntryLists ==
    {<<>>} \cup {<<e>> : e \in EntrySet(ReadableOrder[1])}
           \cup {<<Entry(ReadableOrder[1], StreamXMLWriter(<<"root">>, <<"a">>),
                         <<"StringReadable">>),
                   Entry(ReadableOrder[2], <<"a">>, <<"HierarchicalXMLReadable">>)>>}

DoDeserializeStream(id, reader, version, groups, data, entries) ==
    FinishRead(id, reader,
               CallReader(reader, traj[id], Encode(version, groups, data, <<"a">>, entries)),
               [version |-> version, entries |-> entries])

InitVersions ==
    /\ traj \in [{1} -> {NewInterface(TRUE)}]
    /\ ret = NoCall

NextVersions ==
    \/ \E spec \in QueryCatalogue : DoInit(1, spec, "quiet")
    \/ \E readable \in ReadableSet(ReadableOrder[2]) :
          DoSetReadableInterface(1, ReadableOrder[2], readable)
    \/ \E reader \in Readers, version \in Versions, entries \in EntryLists :
          \E data \in DataSet(SpecLinear, Values(PairMaxValue), Deltas(0, PairMaxDelta),
                              SerialMaxWaypoints) :
             DoDeserializeStream(1, reader, version, SpecLinear, data, entries)

SpecVersions == InitVersions /\ [][NextVersions]_vars

\* the entry of a list of entries with an id
HasEntry(entries, id) == \E k \in 1..Len(entries) : entries[k].id = id

EntryOf(entries, id) == entries[CHOOSE k \in 1..Len(entries) : entries[k].id = id]

\* the readables are opaque string readables of the payloads of the entries,
\* but for those the predicate excepts
OpaqueBut(readables, entries, excepted(_)) ==
    /\ DOMAIN readables = {entries[k].id : k \in 1..Len(entries)}
    /\ \A k \in 1..Len(entries) :
          ~excepted(entries[k]) => readables[entries[k].id] = StringReadable(entries[k].payload)

NoEntry(e) == FALSE

IsHierarchical(e) == e.tag = <<"HierarchicalXMLReadable">>

-----------------------------------------------------------------------------
(* One trajectory initialised with lists of groups of every category *)

\* the groups the lists are made of: one of every rank of the table and two
\* of no rank, each with a channel of its own
GroupPool ==
    <<Group(<<"outputSignals">>, 0, 1, ""), Group(<<"joint_torques">>, 1, 1, ""),
      Group(<<"affine_transform">>, 2, 1, ""), Group(<<"joint_velocities">>, 3, 1, ""),
      Group(<<"affine_accelerations">>, 4, 1, ""), Group(<<"joint_jerks">>, 5, 1, ""),
      Group(<<"affine_snaps">>, 6, 1, ""), Group(<<"deltatime">>, 7, 1, ""),
      Group(<<"grabbody", "a">>, 8, 1, "")>>

\* the lists of at most n groups of the pool, no group twice
RECURSIVE GroupLists(_)
GroupLists(n) ==
    IF n = 0 THEN {<<>>}
    ELSE LET shorter == GroupLists(n - 1)
         IN  shorter \cup
             {Append(l, GroupPool[k]) : l \in {x \in shorter : Len(x) = n - 1},
                                        k \in 1..Len(GroupPool)}

DistinctGroups(l) == \A i, j \in 1..Len(l) : i # j => l[i] # l[j]

DoInitGroups(id, spec) ==
    Finish(id, InitTraj(traj[id], spec), Ret("Init", id, "none", [spec |-> spec], <<>>))

NextOrder ==
    \E spec \in {l \in GroupLists(MaxGroups) : DistinctGroups(l)} : DoInitGroups(1, spec)

SpecOrder == Init /\ [][NextOrder]_vars

\* the rank of a category in the precedence of the interface, 7 for a
\* category without one
Rank(g) ==
    LET c == Prefix(g)
    IN  CASE c = "deltatime" -> 0
          [] c \in {"joint_snaps", "affine_snaps"} -> 1
          [] c \in {"joint_jerks", "affine_jerks"} -> 2
          [] c \in {"joint_accelerations", "affine_accelerations"} -> 3
          [] c \in {"joint_velocities", "affine_velocities"} -> 4
          [] c \in {"joint_values", "affine_transform"} -> 5
          [] c = "joint_torques" -> 6
          [] OTHER -> 7

Canonical(groups) ==
    \A i, j \in 1..Len(groups) :
       i < j => /\ Rank(groups[i]) <= Rank(groups[j])
                /\ (Rank(groups[i]) = 7 /\ Rank(groups[j]) = 7)
                      => ~StringLess(Prefix(groups[j]), Prefix(groups[i]))

IsPermutation(a, b) ==
    /\ Len(a) = Len(b)
    /\ \E f \in [1..Len(a) -> 1..Len(a)] :
          /\ \A i, j \in 1..Len(a) : i # j => f[i] # f[j]
          /\ \A i \in 1..Len(a) : a[i] = b[f[i]]

\* C16: after Init with a list of groups the stored groups are in canonical
\* order (known categories by the precedence deltatime, snaps, jerks,
\* accelerations, velocities, values/transform, torques; unknown categories
\* after them, in lexicographic order of the category token) and are a
\* permutation of the list.
C16_InitStoresCanonicalOrder ==
    [][(ret'.op = "Init" /\ "spec" \in DOMAIN ret'.args)
          => /\ Canonical(traj'[1].spec)
             /\ IsPermutation(traj'[1].spec, ret'.args.spec)]_vars

\* Init was called with an unknown category in front of known ones and the
\* known ones against the precedence
C16_Witness ==
    /\ ret.op = "Init"
    /\ "spec" \in DOMAIN ret.args
    /\ ret.args.spec = <<GroupPool[1], GroupPool[2], GroupPool[8]>>
    /\ traj[1].spec = <<GroupPool[8], GroupPool[2], GroupPool[1]>>


-----------------------------------------------------------------------------
(* One trajectory that is initialised again while it holds waypoints *)

ReinitCatalogue == {SpecLinear, SpecPrevious, SpecPairA, SpecPairB}

\* the call records what it found: the flag, the groups and the waypoints
DoInitAgain(id, spec) ==
    Finish(id, InitTraj(traj[id], spec),
           Ret("Init", id, "none",
               [spec |-> spec, init |-> traj[id].bInit, groups |-> traj[id].spec,
                n |-> GetNumWaypoints(traj[id])],
               <<>>))

NextReinit ==
    \/ \E spec \in ReinitCatalogue : DoInitAgain(1, spec)
    \/ \E index \in Indices(QueryMaxWaypoints) :
          \E data \in Rows(traj[1].spec, Values(MaxValue), Deltas(0, MaxDelta)) :
             DoInsert(1, index, data, FALSE, QueryMaxWaypoints, "quiet")
    \/ DoGetDuration(1)

SpecReinit == Init /\ [][NextReinit]_vars

\* the step is an Init of an initialised trajectory with the groups it has
IsReinit ==
    /\ ret'.op = "Init"
    /\ "groups" \in DOMAIN ret'.args
    /\ traj[1].bInit
    /\ SpecEq(traj[1].spec, ret'.args.spec)

KeepsGroups(old, new) ==
    /\ new.spec = old.spec
    /\ new.timeoffset = old.timeoffset
    /\ new.vderivoffsets = old.vderivoffsets
    /\ new.vddoffsets = old.vddoffsets
    /\ new.vdddoffsets = old.vdddoffsets
    /\ new.vintegraloffsets = old.vintegraloffsets
    /\ new.viioffsets = old.viioffsets

\* C17 (as stated): Init of an initialised trajectory with the groups it has
\* leaves the group order, the time offset, the resolved offsets and the
\* stored waypoints as they were.
C17_ReinitIsNoOp ==
    [][IsReinit => /\ KeepsGroups(traj[1], traj'[1])
                   /\ traj'[1].vtrajdata = traj[1].vtrajdata]_vars

\* C17 (amended): Init of an initialised trajectory with the groups it has
\* leaves the group order, the time offset, the resolved offsets and the
\* bound functions as they were, and discards the stored waypoints: the
\* buffer is empty and the time index is stale after the call.
C17_ReinitKeepsGroupsAndClears ==
    [][IsReinit => /\ KeepsGroups(traj[1], traj'[1])
                   /\ traj'[1].vgroupinterpolators = traj[1].vgroupinterpolators
                   /\ traj'[1].vgroupvalidators = traj[1].vgroupvalidators
                   /\ traj'[1].bInit
                   /\ traj'[1].vtrajdata = <<>>
                   /\ traj'[1].bChanged]_vars

\* Init was called with the groups the trajectory had while it held two
\* waypoints
C17_Witness ==
    /\ ret.op = "Init"
    /\ "groups" \in DOMAIN ret.args
    /\ ret.args.init
    /\ SpecEq(ret.args.groups, ret.args.spec)
    /\ ret.args.n = 2
    /\ traj[1].spec = ret.args.groups
    /\ traj[1].vtrajdata = <<>>


-----------------------------------------------------------------------------
(* One trajectory with a cubic group that has no related group *)

SpecCubicAlone == <<Group(<<"joint_values">>, 0, 1, "cubic"), Group(<<"deltatime">>, 1, 1, "")>>

CubicCatalogue == {SpecCubicAlone, SpecLinear}

\* the call records the debug level and whether the waypoints had changed
\* since the last query
DoSampleAt(id, time, bVerify) ==
    LET r == SampleTraj(traj[id], time, bVerify)
    IN  Finish(id, r.t,
               Ret("SampleAt", id, r.err,
                   [time |-> time, verify |-> bVerify, first |-> traj[id].bChanged], r.val))

NextCubic ==
    \/ \E spec \in CubicCatalogue : DoInit(1, spec, "quiet")
    \/ \E index \in Indices(QueryMaxWaypoints) :
          \E data \in Rows(traj[1].spec, Values(MaxValue), Deltas(0, MaxDelta)) :
             DoInsert(1, index, data, FALSE, QueryMaxWaypoints, "quiet")
    \/ \E time \in Times, bVerify \in BOOLEAN : DoSampleAt(1, time, bVerify)

SpecCubic == Init /\ [][NextCubic]_vars

\* tr has a cubic group with neither a derivative nor an integral resolved
Unsamplable(tr) ==
    /\ tr.bInit
    /\ tr.timeoffset >= 0
    /\ \E i \in 1..Len(tr.spec) :
          /\ tr.spec[i].interpolation = "cubic"
          /\ tr.vderivoffsets[tr.spec[i].offset + 1] < 0
          /\ tr.vintegraloffsets[tr.spec[i].offset + 1] < 0

\* the step is the first Sample of such a trajectory after waypoints were
\* inserted
IsFirstCubicSample ==
    /\ ret'.op = "SampleAt"
    /\ ret'.args.first
    /\ Unsamplable(traj[1])
    /\ GetNumWaypoints(traj[1]) >= 1

\* time lies in a segment, more than the tolerance after its start
InsideSegment(tr, time) ==
    /\ RLt(time, Duration(tr))
    /\ SegmentEnd(tr, time) >= 1
    /\ RGt(RSub(time, PrefixSum(tr, SegmentEnd(tr, time) - 1)), g_fEpsilon)

-----------------------------------------------------------------------------
(* Sampling at a fixed step *)

\* int(ceil(a)) of a finite value
Ceil(a) == -((-a[1]) \div a[2])

\* numPoints of _SampleRangeSameDeltaTime
NumPoints(deltatime, startTime, stopTime, ensureLastPoint) ==
    LET duration == RSub(stopTime, startTime)
        numPoints == Ceil(RMul(duration, RInv(deltatime)))
    IN  IF ensureLastPoint
           /\ RLt(RAdd(RMul(R(numPoints - 1), deltatime), g_fEpsilon), duration)
        THEN numPoints + 1 ELSE numPoints

\* the cursor into the accumulated times after the lower_bound of one pass
\* of the loop; a time at or past the duration leaves it where it is
Cursor(tr, it, sampletime) ==
    IF RGe(sampletime, GetDurationTraj(tr).val) THEN it
    ELSE LowerBound(tr.vaccumtime, it, Len(tr.vaccumtime) - it, sampletime)

\* the row one pass of the loop writes over the row into of data, and whether
\* an interpolator throws
SampleRow(tr, it, sampletime, into) ==
    IF RGe(sampletime, GetDurationTraj(tr).val) THEN SampleEnd(tr, sampletime)
    ELSE IF it = 0 THEN SampleBegin(tr, sampletime)
    ELSE SampleSegmentInto(tr, it, sampletime, into)

RowThrows(tr, it, sampletime) ==
    /\ ~RGe(sampletime, GetDurationTraj(tr).val)
    /\ it # 0
    /\ SegmentThrows(tr, it, sampletime)

PushRow(row, rest) == [err |-> rest.err, val |-> row \o rest.val]

\* the rows i .. count - 1 of the loop and whether an interpolator throws in
\* one of them; it is the cursor into the accumulated times, data the resized
\* vector the rows are written over
RECURSIVE SampleRows(_, _, _, _, _, _, _)
RECURSIVE SampleRowsFrom(_, _, _, _, _, _, _, _)
SampleRows(tr, deltatime, startTime, i, count, it, data) ==
    IF i >= count THEN [err |-> "none", val |-> <<>>]
    ELSE SampleRowsFrom(tr, deltatime, startTime, i, count,
                        RAdd(startTime, RMul(R(i), deltatime)), it, data)

SampleRowsFrom(tr, deltatime, startTime, i, count, sampletime, it, data) ==
    IF RowThrows(tr, Cursor(tr, it, sampletime), sampletime)
    THEN [err |-> "InvalidArguments", val |-> <<>>]
    ELSE PushRow(SampleRow(tr, Cursor(tr, it, sampletime), sampletime,
                           Slice(data, i * GetDOF(tr.spec), GetDOF(tr.spec))),
                 SampleRows(tr, deltatime, startTime, i + 1, count,
                            Cursor(tr, it, sampletime), data))

LoopCount(ensureLastPoint, numPoints) ==
    IF ensureLastPoint THEN numPoints - 1 ELSE numPoints

\* _SampleRangeSameDeltaTime after the loop.  With ensureLastPoint and no row
\* to return the copy of the last waypoint goes past the end of the resized
\* vector; overrun is what the build makes of it: "Crash", or "none" when the
\* write lands in spare capacity and the vector stays empty.
SampleRangeLast(t, rows, numPoints, stopTime, ensureLastPoint, overrun) ==
    IF rows.err # "none" THEN Answer(t, rows.err, <<>>)
    ELSE IF ensureLastPoint /\ numPoints = 0 THEN Answer(t, overrun, <<>>)
    ELSE Answer(t, "none",
                rows.val \o (IF ensureLastPoint THEN SampleEnd(t, stopTime) ELSE <<>>))

\* _SampleRangeSameDeltaTime from the resize of data on
SampleRangeLoop(t, deltatime, startTime, stopTime, ensureLastPoint, numPoints, overrun, data) ==
    SampleRangeLast(t,
                    SampleRows(t, deltatime, startTime, 0,
                               LoopCount(ensureLastPoint, numPoints), 0,
                               Resize(data, GetDOF(t.spec) * numPoints)),
                    numPoints, stopTime, ensureLastPoint, overrun)

\* _SampleRangeSameDeltaTime after _VerifySampling, v its outcome
SampleRangeVerified(v, deltatime, startTime, stopTime, ensureLastPoint, overrun, data) ==
    IF v.err # "none" THEN Answer(v.t, v.err, <<>>)
    ELSE SampleRangeLoop(v.t, deltatime, startTime, stopTime, ensureLastPoint,
                         NumPoints(deltatime, startTime, stopTime, ensureLastPoint), overrun,
                         data)

\* _SampleRangeSameDeltaTime after _ComputeInternal, c its outcome
SampleRangeComputed(c, deltatime, startTime, stopTime, ensureLastPoint, bVerify, overrun, data) ==
    IF c.err # "none" THEN Answer(c.t, c.err, <<>>)
    ELSE IF ~(Len(c.t.vtrajdata) >= GetDOF(c.t.spec))
         THEN Answer(c.t, "InvalidArguments", <<>>)
    ELSE SampleRangeVerified(IF bVerify THEN VerifySampling(c.t) ELSE c, deltatime,
                             startTime, stopTime, ensureLastPoint, overrun, data)

SampleRangeSameDeltaTimeTraj(tr, deltatime, startTime, stopTime, ensureLastPoint, bVerify, overrun, data) ==
    IF ~tr.bInit \/ ~(tr.timeoffset >= 0) THEN Answer(tr, "Assert", <<>>)
    ELSE IF ~RGe(startTime, R(0)) \/ ~RGe(stopTime, startTime)
         THEN Answer(tr, "InvalidArguments", <<>>)
    ELSE SampleRangeComputed(ComputeInternal(tr), deltatime, startTime, stopTime,
                             ensureLastPoint, bVerify, overrun, data)

\* SamplePointsSameDeltaTime, d the outcome of GetDuration
SamplePointsOver(d, deltatime, ensureLastPoint, bVerify, overrun, data) ==
    IF d.err # "none" THEN Answer(d.t, d.err, <<>>)
    ELSE SampleRangeSameDeltaTimeTraj(d.t, deltatime, R(0), d.val, ensureLastPoint,
                                      bVerify, overrun, data)

SamplePointsSameDeltaTimeTraj(tr, deltatime, ensureLastPoint, bVerify, overrun, data) ==
    SamplePointsOver(GetDurationTraj(tr), deltatime, ensureLastPoint, bVerify, overrun, data)

\* the steps: one below the tolerance, and multiples of 1/2
DeltaTimes == {<<1, 2048>>, <<1, 2>>, R(1)}

\* the ends of a range: the times of the queries, and one that is past a
\* multiple of the step by less than the tolerance
RangeTimes == {R(0), <<1, 2>>, R(1), <<2049, 2048>>, R(2)}

Overruns == {"Crash", "none"}

\* the calls return at most MaxPoints rows
FewPoints(tr, deltatime, startTime, stopTime) ==
    /\ RLe(startTime, stopTime)
    /\ Ceil(RMul(RSub(stopTime, startTime), RInv(deltatime))) < MaxPoints

\* the call ends with the outcome r and is observed with its arguments and rows
FinishSameDelta(id, op, r, deltatime, startTime, stopTime, ensureLastPoint) ==
    Finish(id, r.t,
           Ret(op, id, r.err,
               [deltatime |-> deltatime, startTime |-> startTime, stopTime |-> stopTime,
                ensureLastPoint |-> ensureLastPoint], r.val))

\* d is the outcome of GetDuration
DoSamplePointsOver(id, d, deltatime, ensureLastPoint, bVerify, overrun, data) ==
    /\ d.err = "none" => FewPoints(traj[id], deltatime, R(0), d.val)
    /\ FinishSameDelta(id, "SamplePointsSameDeltaTime",
                       SamplePointsOver(d, deltatime, ensureLastPoint, bVerify, overrun,
                                        data),
                       deltatime, R(0), IF d.err = "none" THEN d.val ELSE R(0),
                       ensureLastPoint)

\* data is the vector the caller passes for the rows
DoSamplePointsSameDeltaTime(id, deltatime, ensureLastPoint, bVerify, overrun, data) ==
    DoSamplePointsOver(id, GetDurationTraj(traj[id]), deltatime, ensureLastPoint, bVerify,
                       overrun, data)

DoSampleRangeSameDeltaTime(id, deltatime, startTime, stopTime, ensureLastPoint, bVerify, overrun, data) ==
    /\ RLe(startTime, stopTime) => FewPoints(traj[id], deltatime, startTime, stopTime)
    /\ FinishSameDelta(id, "SampleRangeSameDeltaTime",
                       SampleRangeSameDeltaTimeTraj(traj[id], deltatime, startTime, stopTime,
                                                    ensureLastPoint, bVerify, overrun, data),
                       deltatime, startTime, stopTime, ensureLastPoint)

StartTimes == {R(0), <<1, 2>>}

NextSameDelta ==
    \/ \E spec \in QueryCatalogue : DoInit(1, spec, "quiet")
    \/ \E index \in Indices(QueryMaxWaypoints) :
          \E data \in Rows(traj[1].spec, Values(PairMaxValue), Deltas(0, MaxDelta)) :
             DoInsert(1, index, data, FALSE, QueryMaxWaypoints, "quiet")
    \/ \E deltatime \in DeltaTimes, ensureLastPoint, bVerify \in BOOLEAN, overrun \in Overruns :
          DoSamplePointsSameDeltaTime(1, deltatime, ensureLastPoint, bVerify, overrun, <<>>)
    \/ \E deltatime \in DeltaTimes, startTime \in StartTimes, stopTime \in RangeTimes,
          ensureLastPoint \in BOOLEAN, overrun \in Overruns :
          DoSampleRangeSameDeltaTime(1, deltatime, startTime, stopTime, ensureLastPoint,
                                     FALSE, overrun, <<>>)

SpecSameDelta == Init /\ [][NextSameDelta]_vars

\* the number of rows the interface gives for a span and a step
RowCount(span, delta, ensure_last) ==
    LET n == CHOOSE k \in 0..(MaxPoints + 1) :
                /\ RGe(RMul(R(k), delta), span)
                /\ k > 0 => RLt(RMul(R(k - 1), delta), span)
    IN  IF ensure_last /\ RLt(RAdd(RMul(R(n - 1), delta), g_fEpsilon), span)
        THEN n + 1 ELSE n

\* the step is a call that samples a trajectory with waypoints at a fixed
\* step over a range that is in order
IsSameDeltaCall ==
    /\ ret'.op \in {"SamplePointsSameDeltaTime", "SampleRangeSameDeltaTime"}
    /\ traj[1].bInit
    /\ traj[1].timeoffset >= 0
    /\ GetNumWaypoints(traj[1]) >= 1
    /\ RLe(ret'.args.startTime, ret'.args.stopTime)

\* C19: the calls that sample at a fixed step return exactly n rows of DOF
\* values, n the ceiling of span / step, plus one when ensureLastPoint is set
\* and (n - 1) * step + epsilon < span; with ensureLastPoint the last row is
\* the last waypoint of the buffer as stored.
C19_SameDeltaRowCount ==
    [][IsSameDeltaCall
          => LET a == ret'.args
                 dof == GetDOF(traj[1].spec)
                 n == RowCount(RSub(a.stopTime, a.startTime), a.deltatime, a.ensureLastPoint)
             IN  /\ ret'.err = "none"
                 /\ Len(ret'.val) = n * dof
                 /\ (a.ensureLastPoint /\ n > 0)
                       => RowOf(ret'.val, dof, n - 1)
                             = Waypoint(traj[1], GetNumWaypoints(traj[1]) - 1)]_vars


-----------------------------------------------------------------------------
(* Sampling into a caller's specification *)

\* ConfigurationSpecification::ConvertData between two specifications:
\* numpoints rows of source are converted into zeroed rows of targetspec, a
\* group without a source takes its default
StaticConvertData(targetspec, source, sourcespec, numpoints) ==
    ConvertData([spec |-> targetspec], Len(targetspec),
                [k \in 1..(GetDOF(targetspec) * numpoints) |-> R(0)], 0,
                source, 0, sourcespec, numpoints, TRUE)

\* Sample(data, time, spec, reintializeData) called with an empty data
SampleSpecTraj(tr, time, spec, bVerify) ==
    IF ~tr.bInit \/ ~(tr.timeoffset >= 0) \/ ~RGe(time, RNeg(g_fEpsilon))
    THEN Answer(tr, "Assert", <<>>)
    ELSE LET c == ComputeInternal(tr)
             v == IF bVerify /\ c.err = "none" THEN VerifySampling(c.t) ELSE c
             duration == GetDurationTraj(v.t).val
             index == LowerBound(v.t.vaccumtime, 0, Len(v.t.vaccumtime), time)
             dof == GetDOF(v.t.spec)
         IN  IF c.err # "none" THEN Answer(c.t, c.err, <<>>)
             ELSE IF ~(Len(c.t.vtrajdata) >= GetDOF(c.t.spec))
                  THEN Answer(c.t, "InvalidArguments", <<>>)
             ELSE IF v.err # "none" THEN Answer(v.t, v.err, <<>>)
             ELSE IF RGe(time, duration)
                  THEN Answer(v.t, "none",
                              StaticConvertData(spec,
                                                Slice(v.t.vtrajdata, Len(v.t.vtrajdata) - dof, dof),
                                                v.t.spec, 1))
             ELSE IF index = 0
                  THEN Answer(v.t, "none",
                              StaticConvertData(spec, Slice(v.t.vtrajdata, 0, dof), v.t.spec, 1))
             ELSE IF SegmentThrows(v.t, index, time) THEN Answer(v.t, "InvalidArguments", <<>>)
             ELSE Answer(v.t, "none",
                         StaticConvertData(spec, SampleSegment(v.t, index, time),
                                           v.t.spec, 1))

TargetCatalogue == {SpecLinear, SpecPrevious, SpecTime}

DoSampleSpec(id, time, spec, bVerify) ==
    LET r == SampleSpecTraj(traj[id], time, spec, bVerify)
    IN  Finish(id, r.t,
               Ret("SampleSpec", id, r.err, [time |-> time, spec |-> spec, verify |-> bVerify],
                   r.val))

NextSampleSpec ==
    \/ \E spec \in QueryCatalogue : DoInit(1, spec, "quiet")
    \/ \E index \in Indices(QueryMaxWaypoints) :
          \E data \in Rows(traj[1].spec, Values(MaxValue), Deltas(0, MaxDelta)) :
             DoInsert(1, index, data, FALSE, QueryMaxWaypoints, "quiet")
    \/ \E time \in Times, spec \in TargetCatalogue, bVerify \in BOOLEAN :
          DoSampleSpec(1, time, spec, bVerify)

SpecSampleSpec == Init /\ [][NextSampleSpec]_vars

\* C20: at every time t >= 0 the row Sample gives in a target specification
\* is the conversion into that specification of the row Sample gives in the
\* internal one, and is that row itself when the target is the internal
\* specification.
C20_SampleSpecIsConversion ==
    [][(/\ ret'.op = "SampleSpec"
        /\ traj[1].bInit
        /\ traj[1].timeoffset >= 0
        /\ GetNumWaypoints(traj[1]) >= 1)
          => LET a == ret'.args
                 internal == SampleTraj(traj[1], a.time, a.verify)
             IN  /\ ret'.err = internal.err
                 /\ internal.err = "none"
                       => /\ ret'.val = StaticConvertData(a.spec, internal.val, traj[1].spec, 1)
                          /\ a.spec = traj[1].spec => ret'.val = internal.val]_vars


-----------------------------------------------------------------------------
(* Insert from a source specification that lacks groups of the trajectory *)

\* a specification with a pose group tagged RotationQuat and a signal group
SpecAffine ==
    <<Group(<<"joint_values">>, 0, 1, "linear"), Group(<<"affine_transform", "a", "32">>, 1, 4, ""),
      Group(<<"outputSignals">>, 5, 1, ""), Group(<<"deltatime">>, 6, 1, "")>>

FillCatalogue == {SpecAffine, SpecLinear}

FillSources == {SpecTime, SpecLinear}

\* the channel value of the rows the trajectory is filled with in its own
\* specification: no default of a category
OwnValue == 2

FinishInsertFrom(id, r, index, data, spec, bOverwrite, cap) ==
    /\ WithinCap(r.t, cap)
    /\ Finish(id, r.t,
              Ret("InsertSpec", id, r.err,
                  [before |-> GetNumWaypoints(traj[id]), index |-> index, spec |-> spec,
                   data |-> data, overwrite |-> bOverwrite], <<>>))

DoInsertFrom(id, index, data, spec, bOverwrite, cap) ==
    FinishInsertFrom(id, InsertSpecTraj(traj[id], index, data, spec, bOverwrite), index, data,
                     spec, bOverwrite, cap)

NextFill ==
    \/ \E spec \in FillCatalogue : DoInit(1, spec, "quiet")
    \/ \E index \in Indices(QueryMaxWaypoints) :
          \E data \in Rows(traj[1].spec, {R(OwnValue)}, Deltas(0, PairMaxDelta)) :
             DoInsert(1, index, data, FALSE, QueryMaxWaypoints, "quiet")
    \/ \E index \in Indices(QueryMaxWaypoints), bOverwrite \in BOOLEAN, spec \in FillSources :
          \E data \in DataSet(spec, Values(MaxValue), Deltas(0, PairMaxDelta), MaxInsertRows) :
             DoInsertFrom(1, index, data, spec, bOverwrite, QueryMaxWaypoints)

SpecFill == Init /\ [][NextFill]_vars

\* the default of channel j of a group by its category
CategoryDefault(g, j) ==
    CASE Prefix(g) = "outputSignals" -> R(-1)
      [] Prefix(g) = "affine_transform" -> IdentityPose(AffineTag(g))[j + 1]
      [] OTHER -> R(0)

\* the rows of the data that go over existing rows
OverwrittenRows(before, index, numpoints, bOverwrite) ==
    IF bOverwrite /\ index < before THEN Min(numpoints, before - index) ELSE 0

\* C21: when Insert with a source specification succeeds and the source has no
\* group compatible with a group g of the trajectory, the channels of g keep
\* their values in every existing row that is overwritten and hold the default
\* of the category of g (-1 for outputSignals, the identity pose for
\* affine_transform, 0 otherwise) in every row that is newly inserted.
C21_UncoveredGroupKeptOrDefault ==
    [][(ret'.op = "InsertSpec" /\ ret'.err = "none" /\ traj[1].bInit)
          => LET a == ret'.args
                 dof == GetDOF(traj[1].spec)
                 numpoints == Len(a.data) \div GetDOF(a.spec)
                 copy == OverwrittenRows(a.before, a.index, numpoints, a.overwrite)
             IN  \A n \in 1..Len(traj[1].spec) :
                    LET g == traj[1].spec[n]
                    IN  FindCompatibleGroup(a.spec, g) = 0
                           => \A e \in 0..(numpoints - 1), j \in 0..(g.dof - 1) :
                                 LET k == (a.index + e) * dof + g.offset + j + 1
                                 IN  traj'[1].vtrajdata[k]
                                        = IF e < copy THEN traj[1].vtrajdata[k]
                                          ELSE CategoryDefault(g, j)]_vars

\* an insert from the specification with deltatime alone has overwritten a row
\* and added one to a trajectory that has a pose group and a signal group
C21_Witness ==
    /\ ret.op = "InsertSpec"
    /\ ret.err = "none"
    /\ traj[1].spec = StableSort(SpecAffine, Len(SpecAffine))
    /\ ret.args.spec = SpecTime
    /\ ret.args.overwrite
    /\ ret.args.index < ret.args.before
    /\ Len(ret.args.data) > ret.args.before - ret.args.index


-----------------------------------------------------------------------------
(* The scenarios of the interface: a linear channel with its velocity, and a
   channel labelled next *)

SpecS1 ==
    <<Group(<<"joint_values">>, 0, 1, "linear"), Group(<<"joint_velocities">>, 1, 1, "linear"),
      Group(<<"deltatime">>, 2, 1, "")>>

SpecS3 == <<Group(<<"joint_values">>, 0, 1, "next"), Group(<<"deltatime">>, 1, 1, "")>>

ScenarioCatalogue == {SpecS1, SpecS3}

WaypointsS1 == << <<R(0), R(0), R(0)>>, <<R(1), R(2), <<1, 2>>>> >>

WaypointsS3 == << <<R(0), R(0)>>, <<R(1), R(1)>> >>

\* the rows of the scenario of a stored specification
ScenarioRows(groups) ==
    IF groups = StableSort(SpecS1, Len(SpecS1)) THEN {WaypointsS1[1], WaypointsS1[2]}
    ELSE IF groups = StableSort(SpecS3, Len(SpecS3)) THEN {WaypointsS3[1], WaypointsS3[2]}
    ELSE {}

ScenarioTimes == {R(0), g_fEpsilon, <<1, 4>>, <<1, 2>>}

NextScenario ==
    \/ \E spec \in ScenarioCatalogue : DoInit(1, spec, "quiet")
    \/ \E index \in Indices(QueryMaxWaypoints) :
          \E data \in ScenarioRows(traj[1].spec) :
             DoInsert(1, index, data, FALSE, QueryMaxWaypoints, "quiet")
    \/ DoGetDuration(1)
    \/ \E time \in ScenarioTimes, bVerify \in BOOLEAN : DoSampleAt(1, time, bVerify)

SpecScenario == Init /\ [][NextScenario]_vars

\* the trajectory holds the specification and the waypoints of scenario S1
HoldsS1 ==
    /\ traj[1].bInit
    /\ traj[1].spec = StableSort(SpecS1, Len(SpecS1))
    /\ traj[1].vtrajdata = WaypointsS1[1] \o WaypointsS1[2]

\* the last call sampled the trajectory at time
SampledAt(time) == ret.op = "SampleAt" /\ ret.args.time = time

\* C22: in scenario S1 the duration is 1/2 and the sample at 1/4 is the row
\* (1/2, 2, 1/4).
C22_ScenarioS1 ==
    HoldsS1 =>
       /\ ret.op = "GetDuration" => (ret.err = "none" /\ ret.val = <<1, 2>>)
       /\ SampledAt(<<1, 4>>)
             => (ret.err = "none" /\ ret.val = <<<<1, 2>>, R(2), <<1, 4>>>>)

\* C22 as the code has it: in scenario S1 the duration is 1/2 and the sample at
\* 1/4 is the row (1/2, 1, 1/4); the velocity channel is labelled linear and is
\* blended between its values 0 and 2 like the position channel.
C22_ScenarioS1Blended ==
    HoldsS1 =>
       /\ ret.op = "GetDuration" => (ret.err = "none" /\ ret.val = <<1, 2>>)
       /\ SampledAt(<<1, 4>>)
             => (ret.err = "none" /\ ret.val = <<<<1, 2>>, R(1), <<1, 4>>>>)

C22_Witness == HoldsS1 /\ SampledAt(<<1, 4>>) /\ ret.err = "none"


\* the trajectory holds the specification and the waypoints of scenario S3
HoldsS3 ==
    /\ traj[1].bInit
    /\ traj[1].spec = StableSort(SpecS3, Len(SpecS3))
    /\ traj[1].vtrajdata = WaypointsS3[1] \o WaypointsS3[2]

\* the channel of the group called name in the row the last call returned
Channel(name) ==
    LET i == CHOOSE k \in 1..Len(traj[1].spec) : traj[1].spec[k].name = name
    IN  ret.val[traj[1].spec[i].offset + 1]

\* C23: in scenario S3 the sample at epsilon holds 0 for joint_values and the
\* sample at 1/2 holds 1.
C23_ScenarioS3 ==
    HoldsS3 =>
       /\ SampledAt(g_fEpsilon)
             => (ret.err = "none" /\ Channel(<<"joint_values">>) = R(0))
       /\ SampledAt(<<1, 2>>)
             => (ret.err = "none" /\ Channel(<<"joint_values">>) = R(1))

C23_Witness ==
    /\ HoldsS3
    /\ SampledAt(g_fEpsilon)
    /\ ret.err = "none"
    /\ Channel(<<"joint_values">>) = R(0)


-----------------------------------------------------------------------------
(* Groups labelled next, or not labelled *)

SpecUnlabelled == <<Group(<<"joint_values">>, 0, 1, ""), Group(<<"deltatime">>, 1, 1, "")>>

NextCatalogue == {SpecS3, SpecUnlabelled}

NextMaxWaypoints == 3

\* the sample times, and the times one epsilon past a waypoint
NextTimes == Times \cup {RAdd(R(k), g_fEpsilon) : k \in 0..MaxDelta}

NextNext ==
    \/ \E spec \in NextCatalogue : DoInit(1, spec, "quiet")
    \/ \E index \in Indices(NextMaxWaypoints) :
          \E data \in Rows(traj[1].spec, Values(MaxValue), Deltas(0, MaxDelta)) :
             DoInsert(1, index, data, FALSE, NextMaxWaypoints, "quiet")
    \/ \E time \in NextTimes, bVerify \in BOOLEAN : DoSampleAt(1, time, bVerify)

SpecNext == Init /\ [][NextNext]_vars

\* the last call sampled inside a segment: past the first waypoint's time and
\* before the duration
SampledInside ==
    /\ ret.op = "SampleAt" /\ ret.err = "none"
    /\ GetNumWaypoints(traj[1]) >= 2
    /\ RGt(ret.args.time, PrefixSum(traj[1], 0))
    /\ RLt(ret.args.time, Duration(traj[1]))

\* the start i of the segment [i, i+1] the last call sampled
SegmentStart == SegmentEnd(traj[1], ret.args.time) - 1

\* the time of the last sample from the start of its segment
SegmentDelta == RSub(ret.args.time, PrefixSum(traj[1], SegmentStart))

\* the groups of the trajectory labelled next or not labelled, deltatime apart
NextGroups ==
    {k \in 1..Len(traj[1].spec) :
        /\ traj[1].spec[k].interpolation \in {"next", ""}
        /\ traj[1].spec[k].name # <<"deltatime">>}

\* the channels of group k in the row returned are those of waypoint i
ReturnsWaypoint(k, i) ==
    LET g == traj[1].spec[k]
    IN  Slice(ret.val, g.offset, g.dof)
           = Slice(traj[1].vtrajdata, i * GetDOF(traj[1].spec) + g.offset, g.dof)

\* C24: a group labelled next or not labelled, sampled inside the segment
\* [i, i+1] at delta from its start, holds the value at waypoint i+1 unless
\* delta <= epsilon and i > 0, where it holds the value at waypoint i; in the
\* first segment it holds the value at waypoint 1 for every delta.
C24_NextUnlessPastFirst ==
    SampledInside =>
       \A k \in NextGroups :
          IF RLe(SegmentDelta, g_fEpsilon) /\ SegmentStart > 0
          THEN ReturnsWaypoint(k, SegmentStart)
          ELSE ReturnsWaypoint(k, SegmentStart + 1)

\* C24 as the code has it: the group holds the value at waypoint i+1 unless
\* delta <= epsilon, where it holds the value at waypoint i, the first segment
\* included.
C24_NextUnlessAtStart ==
    SampledInside =>
       \A k \in NextGroups :
          IF RLe(SegmentDelta, g_fEpsilon)
          THEN ReturnsWaypoint(k, SegmentStart)
          ELSE ReturnsWaypoint(k, SegmentStart + 1)

\* a sample one epsilon into the first segment, whose ends differ
C24_Witness ==
    /\ SampledInside
    /\ SegmentStart = 0
    /\ RLe(SegmentDelta, g_fEpsilon)
    /\ NextGroups # {}
    /\ \A k \in NextGroups : ReturnsWaypoint(k, 0) /\ ~ReturnsWaypoint(k, 1)


-----------------------------------------------------------------------------
(* Resolved offsets of a chain of position, velocity and acceleration groups *)

ChainDOF == 2

ValueLabels == {"previous", "next", "max", "", "linear", "quadratic", "cubic"}

VelocityLabels == {"absent", "", "next", "linear", "quadratic"}

AccelerationLabels == {"absent", "next", "linear"}

\* the group called name at offset, or no group when the label is "absent"
Optional(name, offset, label) ==
    IF label = "absent" THEN <<>> ELSE <<Group(<<name>>, offset, ChainDOF, label)>>

ChainSpec(lvalue, lvelocity, lacceleration) ==
    <<Group(<<"joint_values">>, 0, ChainDOF, lvalue)>>
       \o Optional("joint_velocities", ChainDOF, lvelocity)
       \o Optional("joint_accelerations", 2 * ChainDOF, lacceleration)
       \o <<Group(<<"deltatime">>, 3 * ChainDOF, 1, "")>>

ResolveCatalogue ==
    {ChainSpec(a, b, c) : a \in ValueLabels, b \in VelocityLabels, c \in AccelerationLabels}

NextResolve ==
    \/ \E spec \in ResolveCatalogue : DoInit(1, spec, "quiet")
    \/ DoGetDuration(1)

SpecResolve == Init /\ [][NextResolve]_vars

\* the neighbours a label needs, 0 when it needs none
NeedOfLabel(label) ==
    IF label = "linear" THEN 2
    ELSE IF label \in {"quadratic", "cubic", "quartic", "quintic", "sextic"} THEN 3
    ELSE 0

\* the offset resolved for channel c of group g from the group one step away:
\* the matching channel of that group when it exists with the label expected,
\* minus the need of g otherwise
ExpectedOffset(groups, g, c, step) ==
    LET k == RelatedGroup(groups, g, step)
        expected == IF step = 1 THEN GetInterpolationDerivative(g.interpolation)
                    ELSE GetInterpolationIntegral(g.interpolation)
    IN  IF k # 0 /\ groups[k].interpolation # "" /\ groups[k].interpolation = expected
        THEN groups[k].offset + (c - g.offset)
        ELSE -NeedOfLabel(g.interpolation)

\* the channels of a group
ChannelsOf(g) == g.offset..(g.offset + g.dof - 1)

-----------------------------------------------------------------------------
(* Sampling at a fixed step into a vector that holds earlier rows *)

\* a group whose label selects no interpolator
SpecOpaque == <<Group(<<"joint_values">>, 0, 1, "spline"), Group(<<"deltatime">>, 1, 1, "")>>

RangeCatalogue == {SpecLinear, SpecOpaque}

StaleValue == 1

\* the vector the caller passes: empty, or filled by an earlier call
StaleData(groups) ==
    {<<>>, [k \in 1..(GetDOF(groups) * MaxPoints) |-> R(StaleValue)]}

RangeSteps == {<<1, 2>>, R(1)}

NextRange ==
    \/ \E spec \in RangeCatalogue : DoInit(1, spec, "quiet")
    \/ \E index \in Indices(QueryMaxWaypoints) :
          \E data \in Rows(traj[1].spec, Values(PairMaxValue), Deltas(0, MaxDelta)) :
             DoInsert(1, index, data, FALSE, QueryMaxWaypoints, "quiet")
    \/ \E time \in Times : DoSampleAt(1, time, FALSE)
    \/ \E deltatime \in RangeSteps, startTime \in StartTimes, stopTime \in RangeTimes,
          ensureLastPoint \in BOOLEAN, overrun \in Overruns :
          \E data \in StaleData(traj[1].spec) :
             DoSampleRangeSameDeltaTime(1, deltatime, startTime, stopTime, ensureLastPoint,
                                        FALSE, overrun, data)

SpecRange == Init /\ [][NextRange]_vars

\* the rows the loop of the last call wrote: all of them, or all but the last
\* one with ensureLastPoint
LoopRows ==
    0..(LoopCount(ret.args.ensureLastPoint, Len(ret.val) \div GetDOF(traj[1].spec)) - 1)

\* C26: every row i the loop of SampleRangeSameDeltaTime writes is the row
\* Sample returns at startTime + i * deltatime on the same trajectory,
\* whatever the vector passed for the rows held before the call.
C26_RangeRowsAreSamples ==
    (ret.op = "SampleRangeSameDeltaTime" /\ ret.err = "none")
       => \A i \in LoopRows :
             RowOf(ret.val, GetDOF(traj[1].spec), i)
                = SampleTraj(traj[1],
                             RAdd(ret.args.startTime, RMul(R(i), ret.args.deltatime)),
                             FALSE).val


-----------------------------------------------------------------------------
(* The function slots of two trajectories under Init, the binary readers,
   Clone and Swap *)

SlotCatalogue == {SpecLinear, SpecPrevious, SpecTime}

NextSlots ==
    \E id \in TrajIds :
       \/ \E spec \in SlotCatalogue : DoInit(id, spec, "quiet")
       \/ \E data \in Rows(traj[id].spec, Values(MaxValue), Deltas(0, PairMaxDelta)) :
             DoInsert(id, 0, data, FALSE, SerialMaxWaypoints, "quiet")
       \/ DoSerialize(id)
       \/ \E reader \in Readers : DoDeserialize(id, reader)
       \/ \E from \in TrajIds \ {id} : DoClone(id, from, "op")
       \/ \E other \in TrajIds \ {id} : DoSwap(id, other, "op")

SpecSlots == InitSerial /\ [][NextSlots]_vars

\* tr has one interpolator and one validator per group of its specification,
\* each the kernel of the label of the group, and offset arrays of its DOF
SlotsFollowSpec(tr) ==
    /\ Len(tr.vgroupinterpolators) = Len(tr.spec)
    /\ Len(tr.vgroupvalidators) = Len(tr.spec)
    /\ \A i \in 1..Len(tr.spec) :
          /\ i <= Len(tr.vgroupinterpolators)
                => tr.vgroupinterpolators[i].fn = KernelOf(tr.spec[i]).fn
          /\ i <= Len(tr.vgroupvalidators)
                => tr.vgroupvalidators[i].fn = KernelOf(tr.spec[i]).vfn
    /\ \A f \in {"vderivoffsets", "vddoffsets", "vdddoffsets", "vintegraloffsets",
                 "viioffsets"} :
          Len(tr[f]) = GetDOF(tr.spec)

\* C27: after any sequence of Init, binary deserialisation, Clone and Swap,
\* every trajectory has one interpolator and one validator per group of its
\* specification, each the kernel its group's label selects, and five offset
\* arrays as long as its DOF.
C27_SlotsFollowSpec == \A id \in TrajIds : SlotsFollowSpec(traj[id])


-----------------------------------------------------------------------------
(* The elements of the waypoint buffer the interpolators read *)

\* _vtrajdata[k]: element k of the buffer, and outside of it whatever the
\* memory holds, wild.  k is the sum of the unsigned row start and of the
\* signed offset; size_t wraps a negative sum to 2^64 + k, which is past the
\* end of every buffer just as k < 0 is in front of it.
ReadBuffer(tr, k, wild) ==
    IF k >= 0 /\ k < Len(tr.vtrajdata) THEN At(tr.vtrajdata, k) ELSE wild

\* channel i of a quadratic group from its derivative: coeff*t^2 + deriv0*t + pos0
QuadraticFromDerivative(tr, g, ipoint, deltatime, i, wild) ==
    LET dof == GetDOF(tr.spec)
        offset == ipoint * dof
        derivoffset == At(tr.vderivoffsets, g.offset)
        deriv0 == ReadBuffer(tr, offset + derivoffset + i, wild)
        deriv1 == ReadBuffer(tr, dof + offset + derivoffset + i, wild)
        coeff == RMul(RMul(<<1, 2>>, At(tr.vdeltainvtime, ipoint + 1)), RSub(deriv1, deriv0))
    IN  RAdd(ReadBuffer(tr, offset + g.offset + i, wild),
             RMul(deltatime, RAdd(deriv0, RMul(deltatime, coeff))))

\* channel i of a quadratic group from its integral, whose offset is read
\* without a test of its sign
QuadraticFromIntegral(tr, g, ipoint, deltatime, i, wild) ==
    LET dof == GetDOF(tr.spec)
        offset == ipoint * dof
        ideltatime == At(tr.vdeltainvtime, ipoint + 1)
        integraloffset == At(tr.vintegraloffsets, g.offset)
        integral0 == ReadBuffer(tr, offset + integraloffset + i, wild)
        integral1 == ReadBuffer(tr, dof + offset + integraloffset + i, wild)
        value0 == ReadBuffer(tr, offset + g.offset + i, wild)
        value1 == ReadBuffer(tr, dof + offset + g.offset + i, wild)
        c1TimesDelta == RSub(RSub(RMul(RMul(R(6), RSub(integral1, integral0)), ideltatime),
                                  RMul(R(4), value0)),
                             RMul(R(2), value1))
        c1 == RMul(c1TimesDelta, ideltatime)
        c2 == RMul(RSub(RSub(value1, value0), c1TimesDelta), RMul(ideltatime, ideltatime))
    IN  RAdd(value0, RMul(deltatime, RAdd(c1, RMul(deltatime, c2))))

InterpolateQuadratic(tr, g, ipoint, deltatime, data, wild) ==
    CopyTo(data, g.offset,
           [j \in 1..g.dof |->
               IF RGt(deltatime, g_fEpsilon)
               THEN IF At(tr.vderivoffsets, g.offset) >= 0
                    THEN QuadraticFromDerivative(tr, g, ipoint, deltatime, j - 1, wild)
                    ELSE QuadraticFromIntegral(tr, g, ipoint, deltatime, j - 1, wild)
               ELSE ReadBuffer(tr, ipoint * GetDOF(tr.spec) + g.offset + (j - 1), wild)])

\* the indices of _vtrajdata that _InterpolateQuadratic reads
QuadraticReads(tr, g, ipoint, deltatime) ==
    LET dof == GetDOF(tr.spec)
        offset == ipoint * dof
        derivoffset == At(tr.vderivoffsets, g.offset)
        integraloffset == At(tr.vintegraloffsets, g.offset)
    IN  UNION {IF RGt(deltatime, g_fEpsilon)
               THEN IF derivoffset >= 0
                    THEN {offset + derivoffset + i, dof + offset + derivoffset + i,
                          offset + g.offset + i}
                    ELSE {offset + integraloffset + i, dof + offset + integraloffset + i,
                          offset + g.offset + i, dof + offset + g.offset + i}
               ELSE {offset + g.offset + i} : i \in 0..(g.dof - 1)}

\* the indices of _vtrajdata that _InterpolateLinear reads
LinearReads(tr, g, ipoint, deltatime) ==
    LET dof == GetDOF(tr.spec)
        offset == ipoint * dof
        derivoffset == At(tr.vderivoffsets, g.offset)
    IN  UNION {IF derivoffset < 0
               THEN {offset + g.offset + i, dof + offset + g.offset + i}
               ELSE {offset + g.offset + i, dof + offset + derivoffset + i} :
               i \in 0..(g.dof - 1)}

\* the indices of _vtrajdata that _InterpolateNext reads
NextReads(tr, g, ipoint0, deltatime) ==
    LET dof == GetDOF(tr.spec)
        ipoint == IF (ipoint0 + 1) * dof < Len(tr.vtrajdata) THEN ipoint0 + 1 ELSE ipoint0
        offset == ipoint * dof + g.offset
        chosen == IF RLe(deltatime, g_fEpsilon) /\ ipoint > 0 THEN offset - dof ELSE offset
    IN  chosen..(chosen + g.dof - 1)

\* the indices of _vtrajdata the interpolator bound as b reads
KernelReads(tr, b, ipoint, deltatime) ==
    CASE b.fn = "Quadratic" -> QuadraticReads(tr, b.g, ipoint, deltatime)
      [] b.fn = "Linear" -> LinearReads(tr, b.g, ipoint, deltatime)
      [] b.fn = "Next" -> NextReads(tr, b.g, ipoint, deltatime)
      [] OTHER -> {}

\* the indices the interpolators read for the segment that ends at waypoint
\* index, sampled at time
SegmentReads(tr, index, time) ==
    UNION {KernelReads(tr, tr.vgroupinterpolators[i], index - 1,
                       ClampDelta(RSub(time, At(tr.vaccumtime, index - 1)),
                                  At(tr.vtrajdata, GetDOF(tr.spec) * index + tr.timeoffset))) :
           i \in 1..Len(tr.vgroupinterpolators)}

RECURSIVE RunInterpolatorsReading(_, _, _, _, _, _)
RunInterpolatorsReading(tr, n, ipoint, deltatime, data, wild) ==
    IF n = 0 THEN data
    ELSE IF tr.vgroupinterpolators[n].fn = "Quadratic"
         THEN InterpolateQuadratic(tr, tr.vgroupinterpolators[n].g, ipoint, deltatime,
                                   RunInterpolatorsReading(tr, n - 1, ipoint, deltatime, data,
                                                           wild),
                                   wild)
    ELSE CallInterpolator(tr, tr.vgroupinterpolators[n], ipoint, deltatime,
                          RunInterpolatorsReading(tr, n - 1, ipoint, deltatime, data, wild))

\* the row of the segment that ends at waypoint index >= 1, with the
\* quadratic groups interpolated
SampleSegmentReading(tr, index, deltatime, wild) ==
    SetAt(RunInterpolatorsReading(tr, Len(tr.vgroupinterpolators), index - 1, deltatime,
                                  [c \in 1..GetDOF(tr.spec) |-> R(0)], wild),
          tr.timeoffset, deltatime)

\* the segment of Sample, r the outcome of the call up to its interpolators
\* and reads the indices they read.  A read outside of the buffer is
\* undefined: overrun is what the build makes of it, "Crash", or "none" when
\* the memory is mapped and holds wild.
SampleSegmentOutcome(r, index, time, reads, overrun, wild) ==
    IF (\E k \in reads : k < 0 \/ k >= Len(r.t.vtrajdata)) /\ overrun = "Crash"
    THEN [t |-> r.t, err |-> "Crash", val |-> <<>>, reads |-> reads]
    ELSE [t |-> r.t, err |-> "none",
          val |-> SampleSegmentReading(
                     r.t, index,
                     ClampDelta(RSub(time, At(r.t.vaccumtime, index - 1)),
                                At(r.t.vtrajdata, GetDOF(r.t.spec) * index + r.t.timeoffset)),
                     wild),
          reads |-> reads]

\* Sample(data, time), r its outcome short of the quadratic groups
SampleReading(r, time, overrun, wild) ==
    IF r.err # "none" \/ RGe(time, GetDurationTraj(r.t).val)
          \/ LowerBound(r.t.vaccumtime, 0, Len(r.t.vaccumtime), time) = 0
    THEN [t |-> r.t, err |-> r.err, val |-> r.val, reads |-> {}]
    ELSE SampleSegmentOutcome(
            r, LowerBound(r.t.vaccumtime, 0, Len(r.t.vaccumtime), time), time,
            SegmentReads(r.t, LowerBound(r.t.vaccumtime, 0, Len(r.t.vaccumtime), time), time),
            overrun, wild)

FinishReading(id, r, time, bVerify) ==
    Finish(id, r.t,
           Ret("SampleReading", id, r.err, [time |-> time, verify |-> bVerify, reads |-> r.reads],
               r.val))

DoSampleReading(id, time, bVerify, overrun, wild) ==
    FinishReading(id, SampleReading(SampleTraj(traj[id], time, bVerify), time, overrun, wild),
                  time, bVerify)

SpecQuadraticAlone ==
    <<Group(<<"joint_values">>, 0, 1, "quadratic"), Group(<<"deltatime">>, 1, 1, "")>>

SpecQuadraticVelocity ==
    <<Group(<<"joint_values">>, 0, 1, "quadratic"), Group(<<"joint_velocities">>, 1, 1, "linear"),
      Group(<<"deltatime">>, 2, 1, "")>>

ReadingCatalogue == {SpecQuadraticAlone, SpecQuadraticVelocity, SpecS3}

WildValue == 3

WildValues == {R(0), R(WildValue)}

NextReading ==
    \/ \E spec \in ReadingCatalogue : DoInit(1, spec, "quiet")
    \/ \E index \in Indices(QueryMaxWaypoints) :
          \E data \in Rows(traj[1].spec, Values(MaxValue), Deltas(0, MaxDelta)) :
             DoInsert(1, index, data, FALSE, QueryMaxWaypoints, "quiet")
    \/ \E time \in Times, bVerify \in BOOLEAN, overrun \in Overruns, wild \in WildValues :
          DoSampleReading(1, time, bVerify, overrun, wild)

SpecReading == Init /\ [][NextReading]_vars

\* C28: in a Sample that completes without error, every index at which an
\* interpolator reads the waypoint buffer lies in [0, N * DOF), also when a
\* quadratic group resolves neither a derivative nor an integral.
C28_ReadsInBuffer ==
    (ret.op = "SampleReading" /\ ret.err = "none")
       => \A k \in ret.args.reads : k >= 0 /\ k < Len(traj[1].vtrajdata)


-----------------------------------------------------------------------------
(* A rebuild of the time index that failed *)

\* the time index of tr is the one of its buffer
IndexIsCurrent(tr) ==
    /\ Len(tr.vaccumtime) = GetNumWaypoints(tr)
    /\ \A i \in 0..(GetNumWaypoints(tr) - 1) : At(tr.vaccumtime, i) = PrefixSum(tr, i)

\* C29: while a waypoint i >= 1 holds a negative deltatime, a call of
\* GetDuration, GetFirstWaypointIndexAfterTime or Sample fails with
\* InvalidState and leaves the trajectory dirty and its buffer as it is, call
\* after call; once a mutation has taken the negative deltatime out of the
\* buffer these calls do not fail with InvalidState, and one that returns has
\* rebuilt the time index from the buffer as it is now: GetDuration never
\* answers from the arrays a failed rebuild left half written.
C29_FailedRebuildStaysDirty ==
    [][ret'.op \in Queries
          => IF NegativeAfterFirst(traj[1])
             THEN /\ ret'.err = "InvalidState"
                  /\ traj'[1].bChanged
                  /\ traj'[1].vtrajdata = traj[1].vtrajdata
             ELSE /\ ret'.err # "InvalidState"
                  /\ (ret'.err = "none" /\ traj[1].timeoffset >= 0)
                        => /\ IndexIsCurrent(traj'[1])
                           /\ ret'.op = "GetDuration" => ret'.val = Duration(traj'[1])]_vars

\* GetDuration has failed on the second of two waypoints: the trajectory is
\* dirty and its time index holds the first waypoint alone
C29_Witness ==
    /\ ret.op = "GetDuration" /\ ret.err = "InvalidState"
    /\ GetNumWaypoints(traj[1]) = 2
    /\ RLt(DeltaOf(traj[1], 1), R(0))
    /\ traj[1].bChanged
    /\ Len(traj[1].vaccumtime) = 2
    /\ ~IndexIsCurrent(traj[1])


-----------------------------------------------------------------------------
(* Samples at the times of the waypoints, inserted back *)

RoundTripCatalogue == {SpecLinear, SpecPrevious, SpecS3}

\* a step whose inverse, multiplied by the step, does not round to 1 (for the
\* 53 bits of the build the smallest such step is 49)
OddDelta == 23

RoundTripDeltas == {R(-1), R(1), R(OddDelta)}

\* the waypoints are rows as they were drawn, none is a sample inserted back
Pristine(tr) ==
    \A k \in 1..Len(tr.vtrajdata) : tr.vtrajdata[k] \in Values(MaxValue) \cup RoundTripDeltas

\* the times accum[k] of the waypoints of tr
WaypointTimes(tr) ==
    IF tr.bInit /\ tr.timeoffset >= 0
    THEN {PrefixSum(tr, k) : k \in 0..(GetNumWaypoints(tr) - 1)}
    ELSE {}

\* the row the last Sample returned is written over waypoint index
DoReinsert(id, index) ==
    /\ ret.op = "SampleAt" /\ ret.err = "none"
    /\ Pristine(traj[id])
    /\ index < GetNumWaypoints(traj[id])
    /\ DoInsert(id, index, ret.val, TRUE, NextMaxWaypoints, "full")

NextRoundTrip ==
    \/ \E spec \in RoundTripCatalogue : DoInit(1, spec, "quiet")
    \/ \E data \in Rows(traj[1].spec, Values(MaxValue), RoundTripDeltas) :
          DoInsert(1, GetNumWaypoints(traj[1]), data, FALSE, NextMaxWaypoints, "quiet")
    \/ \E time \in WaypointTimes(traj[1]) : DoSampleAt(1, time, FALSE)
    \/ \E index \in Indices(NextMaxWaypoints) : DoReinsert(1, index)

SpecRoundTrip == Init /\ [][NextRoundTrip]_vars

\* the deltatime of the waypoints after the first is above the tolerance, and
\* the groups are labelled previous or next, or linear without a derivative
StepsAndLabels(tr) ==
    /\ tr.bInit /\ tr.timeoffset >= 0
    /\ \A i \in 1..(GetNumWaypoints(tr) - 1) : RGt(DeltaOf(tr, i), g_fEpsilon)
    /\ \A i \in 1..Len(tr.spec) :
          \/ tr.spec[i].interpolation \in {"previous", "next", ""}
          \/ /\ tr.spec[i].interpolation = "linear"
             /\ At(tr.vderivoffsets, tr.spec[i].offset) < 0

\* the waypoints of tr whose time is time
WaypointsAt(tr, time) == {k \in 0..(GetNumWaypoints(tr) - 1) : PrefixSum(tr, k) = time}

\* the next step writes the last sample, taken at the time of waypoint k,
\* over waypoint k
Reinserts(k) ==
    /\ ret.op = "SampleAt" /\ ret.err = "none"
    /\ k \in WaypointsAt(traj[1], ret.args.time)
    /\ ret'.op = "Insert"
    /\ ret'.args.index = k

ExactSegment(tr, k) ==
    \/ k = 0
    \/ k = GetNumWaypoints(tr) - 1
    \/ /\ RMul(RInv(DeltaOf(tr, k)), DeltaOf(tr, k)) = R(1)
       /\ RSub(PrefixSum(tr, k), PrefixSum(tr, k - 1)) = DeltaOf(tr, k)

\* the channels of the groups labelled previous or next of rows a and b are
\* the same
SameSteppedChannels(tr, a, b) ==
    \A i \in 1..Len(tr.spec) :
       (tr.spec[i].interpolation \in {"previous", "next"})
          => Slice(a, tr.spec[i].offset, tr.spec[i].dof)
                = Slice(b, tr.spec[i].offset, tr.spec[i].dof)

====
